---- MODULE Spec2Model ----
(***************************************************************************)
(* A model of the scrape-extract-dedupe pipeline of news_analyze:          *)
(*   news_scraper/scraper.py   filter_existing_links, NewsScraper          *)
(*   database/operations.py    save_scraper_results_to_db                  *)
(*   database/models.py        NewsArticle (unique source_url)             *)
(*   scripts/run_all_scrapers.py                                           *)
(*                                                                         *)
(* Texts exchanged with the language model are sequences of tokens: the    *)
(* JSON punctuation "[", "]", "{", "}", ",", one token for the member list *)
(* of an object (see Bodies), scalars, prose, code fences and the          *)
(* <think> markers.  Python's str.find / str.rfind / slicing / json.loads  *)
(* are computed on these sequences with Python's 0-based indices.          *)
(***************************************************************************)
EXTENDS Integers, Sequences, FiniteSets, TLC

VARIABLES
    el,             \* the frame of one extract_news_links call (SpecLinks)
    store,          \* table news_articles: the sequence of persisted rows
    upstream,       \* what the site serves and the model answers, per list page
    run_site,       \* per run: the site class whose scraper runs
    pc,             \* per run: position in scrape_news / run_all_scrapers
    page,           \* per run: loop variable of the list-page loop
    all_links,      \* per run: scrape_news.all_links
    unique_links,   \* per run: scrape_news.unique_links
    flt,            \* per run: the frame of filter_existing_links
    articles_data,  \* per run: scrape_news.articles_data
    max_articles,   \* per run: the max_articles argument
    stats,          \* per run: what save_scraper_results_to_db returned
    log,            \* per run: the external calls issued so far, in order
    hist,           \* per run: history kept for the properties only
    emb,            \* the frame of generate_embeddings_for_articles and its table
    ras,            \* the frame of main and run_all_scrapers (run_all_scrapers.py)
    fs              \* the files the pipelines write, and the debug switch

vars == <<el, store, upstream, run_site, pc, page, all_links, unique_links, flt,
          articles_data, max_articles, stats, log, hist, emb, ras, fs>>

(***************************************************************************)
(* Bounds of the model.                                                    *)
(***************************************************************************)
MaxItems == 2       \* objects in a well-formed reply array
MaxTextLen == 3     \* tokens in an arbitrary (unstructured) reply
MaxBatches == 2     \* full lookup batches in a filter_existing_links input
NumPages == 2       \* num_pages of a run
MaxLinks == 3       \* links found on the pages of a run (SpecDedup)
MaxArticles == 2     \* new candidates of a run (SpecDetail)
MaxRecords == 2      \* rows of the table at the start of an embedding run

(***************************************************************************)
(* Python sequence primitives.                                             *)
(***************************************************************************)
Min(a, b) == IF a < b THEN a ELSE b
Max(a, b) == IF a > b THEN a ELSE b

\* s[a:b] with Python's treatment of negative and out-of-range indices
PySlice(s, a, b) ==
    LET n  == Len(s)
        lo == IF a < 0 THEN Max(n + a, 0) ELSE Min(a, n)
        hi == IF b < 0 THEN Max(n + b, 0) ELSE Min(b, n)
    IN  IF lo >= hi THEN <<>> ELSE SubSeq(s, lo + 1, hi)

\* s[a:]
PyFrom(s, a) == PySlice(s, a, Len(s))

\* str.find(tok): 0-based index of the first occurrence, -1 when absent
PyFind(s, tok) ==
    LET hits == {i \in 1..Len(s) : s[i] = tok}
    IN  IF hits = {} THEN -1
        ELSE (CHOOSE i \in hits : \A j \in hits : i <= j) - 1

\* str.rfind of the two-character pattern t1 t2
PyRFind2(s, t1, t2) ==
    LET hits == {i \in 1..(Len(s) - 1) : s[i] = t1 /\ s[i + 1] = t2}
    IN  IF hits = {} THEN -1
        ELSE (CHOOSE i \in hits : \A j \in hits : i >= j) - 1

RECURSIVE LStrip(_)
LStrip(s) == IF s # <<>> /\ Head(s) = "ws" THEN LStrip(Tail(s)) ELSE s

RECURSIVE RStrip(_)
RStrip(s) ==
    IF s # <<>> /\ s[Len(s)] = "ws" THEN RStrip(SubSeq(s, 1, Len(s) - 1)) ELSE s

\* str.strip()
Strip(s) == RStrip(LStrip(s))

(***************************************************************************)
(* The reply clean-up shared by extract_news_links and fix_json_response.  *)
(***************************************************************************)
\* re.sub of a leading json code fence and the whitespace after it
SubFenceJson(t) ==
    IF t # <<>> /\ Head(t) = "fence_json" THEN LStrip(Tail(t)) ELSE t

\* re.sub of a leading bare code fence and the whitespace after it
SubFenceOpen(t) ==
    IF t # <<>> /\ Head(t) = "fence" THEN LStrip(Tail(t)) ELSE t

\* re.sub of a trailing code fence and the whitespace before it
SubFenceClose(t) ==
    IF t # <<>> /\ t[Len(t)] = "fence" THEN RStrip(SubSeq(t, 1, Len(t) - 1)) ELSE t

\* re.sub of every shortest <think> ... </think> segment
RECURSIVE SubThink(_)
SubThink(t) ==
    LET open == PyFind(t, "<think>")
    IN  IF open < 0 THEN t
        ELSE LET after == PyFrom(t, open + 1)
                 close == PyFind(after, "</think>")
             IN  IF close < 0 THEN t
                 ELSE PySlice(t, 0, open) \o SubThink(PyFrom(after, close + 1))

CleanReply(raw) ==
    Strip(SubThink(SubFenceClose(SubFenceOpen(SubFenceJson(Strip(raw))))))

Range(s) == {s[i] : i \in 1..Len(s)}

(***************************************************************************)
(* JSON.  A body token stands for the member list of one object; Bodies    *)
(* gives the members it carries.  A title is a string, or one of the       *)
(* markers <absent> (no such key), <null> and <num> (a non-string value);  *)
(* a link is a record whose kind k is "rel" (a path), "abs" (a URL with a  *)
(* scheme), "empty", "null" or "absent".                                   *)
(***************************************************************************)
RelLink(p)    == [k |-> "rel", host |-> "", path |-> p]
AbsLink(h, p) == [k |-> "abs", host |-> h, path |-> p]
NoLink(kind)  == [k |-> kind, host |-> "", path |-> 0]

Bodies ==
    [a  |-> [title |-> "t1", link |-> RelLink(1), date |-> "01/05"],
     b  |-> [title |-> "t2", link |-> RelLink(2), date |-> "01/05"],
     c  |-> [title |-> "t3", link |-> AbsLink("www.setn.com", 1), date |-> "01/05"],
     d  |-> [title |-> "t4", link |-> RelLink(3), date |-> "01/06"],
     nt |-> [title |-> "<null>", link |-> RelLink(2), date |-> "01/05"],
     et |-> [title |-> "", link |-> RelLink(2), date |-> "01/05"],
     wt |-> [title |-> " ", link |-> RelLink(2), date |-> "01/05"],
     ml |-> [title |-> "t2", link |-> NoLink("absent"), date |-> "01/05"],
     nl |-> [title |-> "t2", link |-> NoLink("null"), date |-> "01/05"]]

BodyTokens == DOMAIN Bodies

\* scalars: a non-empty JSON string, the empty JSON string, a number, null
ScalarTokens == {"str", "estr", "num", "null"}

IsWs(tok) == tok = "ws"

\* the value json.loads builds
JArray(items) == [k |-> "array", items |-> items]
JObject(body) == [k |-> "object", body |-> body]
JScalar(tok)  == [k |-> "scalar", tok |-> tok]
ParseFail     == [ok |-> FALSE, v |-> JScalar("null"), rest |-> <<>>]
ParseOk(v, r) == [ok |-> TRUE, v |-> v, rest |-> r]

RECURSIVE ParseValue(_)
RECURSIVE ParseElems(_, _)

\* one JSON value at the head of the token sequence s (whitespace removed)
ParseValue(s) ==
    IF s = <<>> THEN ParseFail
    ELSE CASE Head(s) = "[" ->
                IF Len(s) >= 2 /\ s[2] = "]"
                THEN ParseOk(JArray(<<>>), SubSeq(s, 3, Len(s)))
                ELSE ParseElems(Tail(s), <<>>)
           [] Head(s) = "{" ->
                IF Len(s) >= 2 /\ s[2] = "}"
                THEN ParseOk(JObject("none"), SubSeq(s, 3, Len(s)))
                ELSE IF Len(s) >= 3 /\ s[2] \in BodyTokens /\ s[3] = "}"
                THEN ParseOk(JObject(s[2]), SubSeq(s, 4, Len(s)))
                ELSE ParseFail
           [] Head(s) \in ScalarTokens ->
                ParseOk(JScalar(Head(s)), Tail(s))
           [] OTHER -> ParseFail

\* the elements of an array after "[" or after a ",": a value, then "," or "]"
ParseElems(s, acc) ==
    LET one == ParseValue(s)
    IN  IF ~one.ok \/ one.rest = <<>> THEN ParseFail
        ELSE CASE Head(one.rest) = "]" ->
                    ParseOk(JArray(Append(acc, one.v)), Tail(one.rest))
               [] Head(one.rest) = "," ->
                    ParseElems(Tail(one.rest), Append(acc, one.v))
               [] OTHER -> ParseFail

NoWs(s) == SelectSeq(s, LAMBDA tok : ~IsWs(tok))

\* json.loads(text): ok = FALSE stands for json.JSONDecodeError
json_loads(text) ==
    LET r == ParseValue(NoWs(text))
    IN  IF r.ok /\ r.rest = <<>> THEN [ok |-> TRUE, v |-> r.v]
        ELSE [ok |-> FALSE, v |-> JScalar("null")]

(***************************************************************************)
(* Sites and link resolution.                                              *)
(***************************************************************************)
Sites == {"TVBS", "SETN", "CT"}

SiteHost(site) ==
    CASE site = "TVBS" -> "news.tvbs.com.tw"
      [] site = "SETN" -> "www.setn.com"
      [] OTHER         -> "www.chinatimes.com"

Url(h, p) == [host |-> h, path |-> p]

\* build_full_link of the three site classes: a link that starts with
\* 'http' is passed through, any other gets the site's domain in front
build_full_link(site, link) ==
    IF link.k = "abs" THEN Url(link.host, link.path)
    ELSE Url(SiteHost(site), link.path)

(***************************************************************************)
(* extract_news_block: which of the patterns a page matches is given by    *)
(* content.tiers; the result is the tier used, 0 for None.                 *)
(***************************************************************************)
extract_news_block(site, content) ==
    IF site = "CT"
    THEN IF 1 \in content.tiers THEN 1
         ELSE IF 3 \in content.tiers THEN 3 ELSE 0
    ELSE IF 1 \in content.tiers THEN 1
         ELSE IF 2 \in content.tiers THEN 2
         ELSE IF 3 \in content.tiers THEN 3 ELSE 0

MinContentLen == 100
max_content_len == 8000

(***************************************************************************)
(* The loop over news_list at the end of extract_news_links.               *)
(***************************************************************************)
StripTitle(t) == IF t = " " THEN "" ELSE t

\* what one item does to the loop: "raise" (AttributeError: the item has
\* no .get, or the value has no .strip), "skip" or "take"
ItemOutcome(item) ==
    IF item.k # "object" THEN "raise"
    ELSE IF item.body = "none" THEN "skip"
    ELSE LET m == Bodies[item.body]
         IN  IF m.title \in {"<null>", "<num>"} THEN "raise"
             ELSE IF m.link.k = "null" THEN "raise"
             ELSE IF StripTitle(m.title) # "" /\ m.link.k \in {"rel", "abs"}
                  THEN "take" ELSE "skip"

RECURSIVE CollectItems(_, _, _)
CollectItems(site, items, acc) ==
    IF items = <<>> THEN [raised |-> FALSE, links |-> acc]
    ELSE LET o == ItemOutcome(Head(items))
         IN  IF o = "raise" THEN [raised |-> TRUE, links |-> <<>>]
             ELSE IF o = "skip" THEN CollectItems(site, Tail(items), acc)
             ELSE LET m == Bodies[Head(items).body]
                  IN  CollectItems(site, Tail(items),
                          Append(acc, <<StripTitle(m.title),
                                        build_full_link(site, m.link)>>))

\* for item in news_list: ... ; a dict iterates over its keys, a string
\* over its characters, and a number or null is not iterable
IterateNewsList(site, v) ==
    CASE v.k = "array"  -> CollectItems(site, v.items, <<>>)
      [] v.k = "object" -> [raised |-> v.body # "none", links |-> <<>>]
      [] OTHER          -> [raised |-> v.tok # "estr", links |-> <<>>]

(***************************************************************************)
(* extract_news_links, one step at a time.  A frame e holds the inputs     *)
(* (site, content) and the locals; the outcome of a model call, [exc,      *)
(* text], is given to the step that makes the call.  raw and cleaned keep  *)
(* the first reply as received and as cleaned.                             *)
(* Exceptions are "JSONDecodeError", "AttributeError", "TypeError" and     *)
(* "LLMError" (whatever llm.invoke raises); all derive from Exception.     *)
(***************************************************************************)
Raises     == [exc |-> TRUE, text |-> <<>>]
Replies(t) == [exc |-> FALSE, text |-> t]

ElFrame(site, content) ==
    [pc |-> "block", site |-> site, content |-> content,
     tier |-> 0, sent_len |-> 0,
     raw |-> <<>>, cleaned |-> <<>>,
     result_text |-> <<>>, news_list |-> JScalar("null"),
     fix_err |-> "", exc |-> "", err |-> "",
     links |-> <<>>, calls |-> <<>>, path |-> <<>>, escaped |-> FALSE]

ElReturn(e, links) == [e EXCEPT !.pc = "done", !.links = links]

ElRaise(e, kind) == [e EXCEPT !.pc = "raise", !.exc = kind]

\* lines 374-379: block extraction
ElBlock(e) ==
    LET t == extract_news_block(e.site, e.content)
    IN  IF t = 0 THEN ElReturn([e EXCEPT !.path = Append(@, "no_block")], <<>>)
        ELSE [e EXCEPT !.pc = "clean", !.tier = t]

\* len(content_to_parse.strip()): the reduced text without the whitespace
\* at its ends
StrippedLen(content) == content.len - content.pad

\* lines 381-414 without the length check of lines 406-409
ElCleanNoCheck(e) ==
    [e EXCEPT !.pc = "invoke",
              !.sent_len = Min(e.content.len, max_content_len)]

\* lines 381-414: cleaning, the length check, the cut to max_content_len
ElClean(e) ==
    IF StrippedLen(e.content) < MinContentLen
    THEN ElReturn([e EXCEPT !.path = Append(@, "too_short")], <<>>)
    ELSE [e EXCEPT !.pc = "invoke",
                   !.sent_len = Min(e.content.len, max_content_len)]

\* lines 450-477: the extraction call and the clean-up of its reply
ElInvoke(e, reply) ==
    LET called == [e EXCEPT !.calls = Append(@, "extract")]
    IN  IF reply.exc THEN ElRaise(called, "LLMError")
        ELSE [called EXCEPT !.pc = "parse", !.raw = reply.text,
                            !.cleaned = CleanReply(reply.text),
                            !.result_text = CleanReply(reply.text)]

\* lines 479-484 with the repair entered whatever json.loads gives
ElParseAlwaysFix(e) ==
    [e EXCEPT !.pc = "fix", !.path = Append(@, "parse_failed")]

\* lines 479-484: the first json.loads; its JSONDecodeError is caught at
\* line 482, nothing else is
ElParse(e) ==
    LET r == json_loads(e.result_text)
    IN  IF r.ok THEN [e EXCEPT !.pc = "items", !.news_list = r.v,
                               !.path = Append(@, "parsed")]
        ELSE [e EXCEPT !.pc = "fix", !.path = Append(@, "parse_failed")]

\* fix_json_response (lines 283-352): it returns the cleaned reply when it
\* parses, re-raises the model's error, or raises JSONDecodeError
fix_json_response(reply) ==
    IF reply.exc THEN [ok |-> FALSE, raised |-> "LLMError", text |-> <<>>]
    ELSE LET fixed_text == CleanReply(reply.text)
         IN  IF json_loads(fixed_text).ok
             THEN [ok |-> TRUE, raised |-> "", text |-> fixed_text]
             ELSE [ok |-> FALSE, raised |-> "JSONDecodeError", text |-> <<>>]

\* lines 486-492: the repair call and the parse of its output
ElFix(e, reply) ==
    LET called == [e EXCEPT !.calls = Append(@, "fix")]
        f == fix_json_response(reply)
    IN  IF f.ok
        THEN [called EXCEPT !.pc = "items",
                            !.news_list = json_loads(f.text).v,
                            !.path = Append(@, "fixed")]
        ELSE [called EXCEPT !.pc = "heur", !.fix_err = f.raised,
                            !.path = Append(@, "fix_failed")]

\* lines 494-504 with the two tests in the other order
HeuristicFirstObjectFirst(text) ==
    IF PyFind(text, "}") > 0 THEN "first_object"
    ELSE IF PyRFind2(text, "}", ",") > 0 THEN "truncate"
    ELSE "reraise"

\* which of the three branches of lines 494-504 is taken
HeuristicBranch(text) ==
    IF PyRFind2(text, "}", ",") > 0 THEN "truncate"
    ELSE IF PyFind(text, "}") > 0 THEN "first_object"
    ELSE "reraise"

\* lines 493-504: the rewriting of result_text; the bare raise of line 504
\* re-raises what the repair raised
ElHeuristic(e) ==
    LET t == e.result_text
        last_complete == PyRFind2(t, "}", ",")
        first_obj_end == PyFind(t, "}")
        br == HeuristicBranch(t)
    IN  CASE br = "truncate" ->
               [e EXCEPT !.pc = "reparse", !.path = Append(@, "truncate"),
                         !.result_text = PySlice(t, 0, last_complete + 1) \o <<"]">>]
          [] br = "first_object" ->
               [e EXCEPT !.pc = "reparse", !.path = Append(@, "first_object"),
                         !.result_text =
                             <<"[">> \o PySlice(t, PyFind(t, "{"), first_obj_end + 1)
                                     \o <<"]">>]
          [] OTHER ->
               ElRaise([e EXCEPT !.path = Append(@, "reraise")], e.fix_err)

\* lines 497 and 502: json.loads of the rewritten text, inside the handler
\* of line 490, so that its JSONDecodeError leaves the inner try
ElReparse(e) ==
    LET r == json_loads(e.result_text)
    IN  IF r.ok THEN [e EXCEPT !.pc = "items", !.news_list = r.v,
                               !.path = Append(@, "recovered")]
        ELSE ElRaise([e EXCEPT !.path = Append(@, "recover_failed")],
                     "JSONDecodeError")

\* lines 506-516: the loop over the items
ElItems(e) ==
    LET r == IterateNewsList(e.site, e.news_list)
    IN  IF r.raised
        THEN ElRaise(e, IF e.news_list.k = "scalar" /\ e.news_list.tok # "str"
                        THEN "TypeError" ELSE "AttributeError")
        ELSE ElReturn(e, r.links)

\* an outer try with the handler of line 518 alone
OuterHandlerJsonOnly(kind) ==
    IF kind = "JSONDecodeError" THEN "line518" ELSE "none"

\* the handlers of the outer try: line 518 for JSONDecodeError, line 523
\* for every other Exception
OuterHandler(kind) ==
    IF kind = "JSONDecodeError" THEN "line518" ELSE "line523"

\* lines 518-527: both handlers return []
ElCatch(e) ==
    IF OuterHandler(e.exc) \in {"line518", "line523"}
    THEN ElReturn([e EXCEPT !.err = e.exc], <<>>)
    ELSE [e EXCEPT !.pc = "done", !.escaped = TRUE]

\* one step; reply1 is what the model answers if this step is the
\* extraction call, reply2 if it is the repair call
ElStep(e, reply1, reply2) ==
    CASE e.pc = "block"   -> ElBlock(e)
      [] e.pc = "clean"   -> ElClean(e)
      [] e.pc = "invoke"  -> ElInvoke(e, reply1)
      [] e.pc = "parse"   -> ElParse(e)
      [] e.pc = "fix"     -> ElFix(e, reply2)
      [] e.pc = "heur"    -> ElHeuristic(e)
      [] e.pc = "reparse" -> ElReparse(e)
      [] e.pc = "items"   -> ElItems(e)
      [] e.pc = "raise"   -> ElCatch(e)
      [] OTHER            -> e

RECURSIVE ElRun(_, _, _)
ElRun(e, reply1, reply2) ==
    IF e.pc = "done" THEN e ELSE ElRun(ElStep(e, reply1, reply2), reply1, reply2)

\* the whole call: the frame at the return
extract_news_links(site, content, reply1, reply2) ==
    ElRun(ElFrame(site, content), reply1, reply2)

(***************************************************************************)
(* scrape_news: intra-run deduplication (lines 667-673).                   *)
(***************************************************************************)
LinkOf(pair)  == pair[2]
TitleOf(pair) == pair[1]

UrlsOf(links) == {LinkOf(links[i]) : i \in 1..Len(links)}

RECURSIVE DedupFrom(_, _, _)
DedupFrom(links, seen_links, unique) ==
    IF links = <<>> THEN unique
    ELSE IF LinkOf(Head(links)) \in seen_links
         THEN DedupFrom(Tail(links), seen_links, unique)
         ELSE DedupFrom(Tail(links), seen_links \cup {LinkOf(Head(links))},
                        Append(unique, Head(links)))

\* a loop that keeps the last occurrence of a link instead of the first
RECURSIVE DedupLinksKeepLast(_)
DedupLinksKeepLast(links) ==
    IF links = <<>> THEN <<>>
    ELSE IF \E j \in 2..Len(links) : LinkOf(links[j]) = LinkOf(Head(links))
         THEN DedupLinksKeepLast(Tail(links))
         ELSE <<Head(links)>> \o DedupLinksKeepLast(Tail(links))

DedupLinks(links) == DedupFrom(links, {}, <<>>)

(***************************************************************************)
(* The table news_articles and filter_existing_links (lines 16-62).        *)
(***************************************************************************)
StoreUrls(rows) == {rows[i].source_url : i \in 1..Len(rows)}

batch_size == 100

\* a slice that always takes the first batch
BatchLinksFirstOnly(links, i) ==
    LET part == PySlice(links, 0, batch_size)
    IN  [j \in 1..Len(part) |-> LinkOf(part[j])]

\* [link for _, link in links[i:i+batch_size]]
BatchLinks(links, i) ==
    LET part == PySlice(links, i, i + batch_size)
    IN  [j \in 1..Len(part) |-> LinkOf(part[j])]

\* db.query(NewsArticle.source_url).filter(source_url.in_(batch_links)).all()
QueryExisting(batch_links, rows) ==
    {u \in StoreUrls(rows) : \E j \in 1..Len(batch_links) : batch_links[j] = u}

\* a return that drops nothing
FilteredLinksAll(links, existing_urls) == links

\* [(title, link) for title, link in links if link not in existing_urls]
FilteredLinks(links, existing_urls) ==
    SelectSeq(links, LAMBDA pair : LinkOf(pair) \notin existing_urls)

\* a loop that makes no lookup
BatchesDoneAtOnce(links, i) == TRUE

\* range(0, len(links), batch_size) is exhausted
BatchesDone(links, i) == i >= Len(links)

\* a handler that returns its input (fail open)
FailOpenResult(links) == links

\* return [] of line 62
FailClosedResult(links) == <<>>

\* the frame of a call: the parameter (input), the loop variable i, the
\* set existing_urls; for the properties, the batches queried, the
\* candidates that were rows of the table when their batch was looked up,
\* the size of the table at the first lookup, and whether the call failed
FltFrame == [i |-> 0, existing_urls |-> {}, queries |-> <<>>,
             seen_stored |-> {}, first_rows |-> 0, failed |-> FALSE,
             input |-> <<>>]

(***************************************************************************)
(* scrape_page and extract_article_info (lines 125-157, 529-601), as far   *)
(* as the run depends on them: the fetch gives a text or "", the model     *)
(* call gives a byline and a synopsis or raises.                           *)
(***************************************************************************)
Unspecified == "unspecified"

scrape_page(fetch_ok) == IF fetch_ok THEN "article" ELSE ""

\* an extract_article_info without the handler of line 599
ArticleInfoHandlerNone(kind) == "none"

\* the handler of the try of lines 566-601: except Exception, line 599
ArticleInfoHandler(kind) == "line599"

extract_article_info(content, reply) ==
    IF reply = "raise" THEN <<Unspecified, "">>
    ELSE IF reply = "both" THEN <<"reporter", "synopsis">>
    ELSE <<Unspecified, "">>

DetailReplies == {"raise", "both", "neither"}

\* the dict appended to articles_data (lines 713-719)
Article(title, reporter, summary, date, link) ==
    [title |-> title, reporter |-> reporter, summary |-> summary,
     date |-> date, link |-> link]

TargetDate == "2026/01/05"

\* line 417: the month/day part of the target date, as put in the prompt
target_date_short == "01/05"

(***************************************************************************)
(* save_scraper_results_to_db (operations.py lines 64-171).                *)
(***************************************************************************)
EmptyUrl == Url("", 0)

\* the dict stats, and with it what the call raised to its caller (raised)
\* and which error it caught and printed (error)
ZeroStats == [total |-> 0, inserted |-> 0, updated |-> 0, skipped |-> 0,
              failed |-> 0, raised |-> FALSE, error |-> ""]

\* strptime with "%Y/%m/%d", then with "%Y-%m-%d"
ParseDate(s) ==
    CASE s = "2026/01/05" -> [ok |-> TRUE, date |-> "2026-01-05"]
      [] s = "2026-01-05" -> [ok |-> TRUE, date |-> "2026-01-05"]
      [] s = "2026/01/06" -> [ok |-> TRUE, date |-> "2026-01-06"]
      [] OTHER            -> [ok |-> FALSE, date |-> ""]

\* lines 106-110 and 113-122: the article is collected
ValidArticle(a) ==
    a.title # "" /\ a.link # EmptyUrl /\ a.date # "" /\ ParseDate(a.date).ok

\* what the loop body of lines 98-136 does with one article: a required
\* field is missing (line 107), the date has neither format (line 119), or
\* the article is collected
ArticleOutcome(a) ==
    IF a.title = "" \/ a.link = EmptyUrl \/ a.date = "" THEN "missing"
    ELSE IF ~ParseDate(a.date).ok THEN "bad_date"
    ELSE "valid"

\* a loop that does not count the articles whose date has neither format
CountsFailedMissingOnly(outcome) == outcome = "missing"

\* lines 109 and 121: stats["failed"] += 1 before the continue
CountsFailed(outcome) == outcome \in {"missing", "bad_date"}

\* lines 125-132
RowOf(a, source_site) ==
    [title |-> a.title,
     reporter |-> IF a.reporter # "" THEN a.reporter ELSE "<none>",
     summary |-> IF a.summary # "" THEN a.summary ELSE "<none>",
     publish_date |-> ParseDate(a.date).date,
     source_url |-> a.link,
     source_site |-> source_site]

ValidRows(articles, source_site) ==
    LET valid == SelectSeq(articles, ValidArticle)
    IN  [j \in 1..Len(valid) |-> RowOf(valid[j], source_site)]

\* a column without the unique constraint
UniqueViolationOff(rows, new_rows) == FALSE

\* the unique constraint on source_url (models.py line 29): the insert of
\* new_rows into rows is rejected
UniqueViolation(rows, new_rows) ==
    \/ \E j \in 1..Len(new_rows) : new_rows[j].source_url \in StoreUrls(rows)
    \/ \E j, k \in 1..Len(new_rows) :
          j # k /\ new_rows[j].source_url = new_rows[k].source_url

\* bulk_insert_mappings without the commit: nothing is raised and nothing
\* is persisted
BulkInsertNoCommit(rows, new_rows, db) ==
    IF db # "ok" THEN [rows |-> rows, raised |-> "Exception"]
    ELSE [rows |-> rows, raised |-> ""]

\* a rollback that keeps the rows of the batch that were no duplicates
RollbackPartial(rows, new_rows) ==
    rows \o SelectSeq(new_rows, LAMBDA n : n.source_url \notin StoreUrls(rows))

\* lines 146, 150: db_session.rollback() after the insert of new_rows
\* into rows has raised
Rollback(rows, new_rows) == rows

\* bulk_insert_mappings + commit (lines 141-142): the rows after the
\* transaction, and whether it raised; db is "ok" or "error" (any failure
\* of the connection or of a column constraint)
BulkInsert(rows, new_rows, db) ==
    IF db # "ok" THEN [rows |-> rows, raised |-> "Exception"]
    ELSE IF UniqueViolation(rows, new_rows)
         THEN [rows |-> rows, raised |-> "IntegrityError"]
         ELSE [rows |-> rows \o new_rows, raised |-> ""]

\* the whole function: result is [has_articles, articles]; db is "ok",
\* "error" or "no_session" (get_db raises at line 88, outside the try)
save_scraper_results_to_db(result, source_site, rows, db) ==
    IF ~result.has_articles THEN [rows |-> rows, stats |-> ZeroStats]
    ELSE LET articles == result.articles
             total == Len(articles)
             valid_articles == ValidRows(articles, source_site)
             invalid == Cardinality({j \in 1..total :
                                        CountsFailed(ArticleOutcome(articles[j]))})
             counted == [ZeroStats EXCEPT !.total = total, !.failed = invalid]
         IN  IF articles = <<>> THEN [rows |-> rows, stats |-> counted]
             ELSE IF db = "no_session"
             THEN [rows |-> rows, stats |-> [counted EXCEPT !.raised = TRUE]]
             ELSE IF valid_articles = <<>> THEN [rows |-> rows, stats |-> counted]
             ELSE LET ins == BulkInsert(rows, valid_articles, db)
                  IN  IF ins.raised = ""
                      THEN [rows |-> ins.rows,
                            stats |-> [counted EXCEPT
                                         !.inserted = Len(valid_articles)]]
                      ELSE [rows |-> Rollback(rows, valid_articles),
                            stats |-> [counted EXCEPT
                                         !.failed = invalid + Len(valid_articles),
                                         !.error = ins.raised]]

(***************************************************************************)
(* The embedding stage: scripts/generate_embeddings.py (the copy in       *)
(* generate_embeddings.py has the same loop).                              *)
(***************************************************************************)

\* a vector column that is NULL
NoVector == <<>>

\* the vector the service computes for a text
Embed(text) == <<"vec", text>>

\* a vector written by an earlier run
OldVector == <<"vec", "earlier">>

\* a row of news_articles with its vector columns (models.py:17-37)
EmbRow(k, title, summary, tv, sv) ==
    [id |-> k, title |-> title, reporter |-> Unspecified, summary |-> summary,
     publish_date |-> TargetDate, source_url |-> Url("www.setn.com", k),
     source_site |-> "SETN", title_embedding |-> tv, summary_embedding |-> sv]

\* the columns the embedding stage has no business with
Descriptive(row) ==
    [id |-> row.id, title |-> row.title, reporter |-> row.reporter,
     summary |-> row.summary, publish_date |-> row.publish_date,
     source_url |-> row.source_url, source_site |-> row.source_site]

\* a test of line 113 that takes every record
NeedsVectorAlways(force_update, current) == TRUE

\* lines 113, 119: force_update or article.<x>_embedding is None
NeedsVector(force_update, current) == force_update \/ current = NoVector

\* lines 62-74: the query; lim = 0 stands for limit=None
QueryArticles(table, force_update, lim) ==
    LET hit(row) == \/ force_update
                    \/ row.title_embedding = NoVector
                    \/ row.summary_embedding = NoVector
        ids == SelectSeq([k \in 1..Len(table) |-> k], LAMBDA k : hit(table[k]))
    IN  IF lim # 0 THEN PySlice(ids, 0, lim) ELSE ids

\* lines 111-116: the positions (from 0) in the batch whose title is sent
TitleIndices(batch, force_update) ==
    SelectSeq([j \in 1..Len(batch) |-> j - 1],
              LAMBDA idx : /\ NeedsVector(force_update, batch[idx + 1].title_embedding)
                           /\ batch[idx + 1].title # "")

\* lines 119-122
SummaryIndices(batch, force_update) ==
    SelectSeq([j \in 1..Len(batch) |-> j - 1],
              LAMBDA idx : /\ NeedsVector(force_update, batch[idx + 1].summary_embedding)
                           /\ batch[idx + 1].summary # "")

\* JinaClient.generate_embeddings (utils/jina_client.py:46-111) on a
\* non-empty list: one vector per input in input order, fewer vectors
\* than inputs, or an exception
ServiceReplies == {"ok", "short", "fail"}

generate_embeddings(texts, reply) ==
    CASE reply = "ok" -> [raised |-> FALSE, value |-> [j \in 1..Len(texts) |-> Embed(texts[j])]]
      [] reply = "short" ->
            [raised |-> FALSE,
             value |-> [j \in 1..(Len(texts) - 1) |-> Embed(texts[j])]]
      [] OTHER -> [raised |-> TRUE, value |-> <<>>]

\* lines 125-136, 139-150: the call with its handler
CallService(texts, reply) ==
    IF texts = <<>> THEN <<>>
    ELSE LET res == generate_embeddings(texts, reply)
         IN  IF res.raised THEN <<>> ELSE res.value

\* a scatter-back that takes the position in the batch
EmbeddingIdxDirect(indices, idx) == idx

\* lines 159, 167: indices.index(idx), for an idx that is in indices
EmbeddingIdx(indices, idx) ==
    (CHOOSE j \in 1..Len(indices) :
        indices[j] = idx /\ \A h \in 1..(j - 1) : indices[h] # idx) - 1

\* lines 158-163, 166-171: the vector one column of a record is given, if any
NewVector(indices, embeddings, idx) ==
    IF idx \in Range(indices) /\ EmbeddingIdx(indices, idx) < Len(embeddings)
    THEN <<embeddings[EmbeddingIdx(indices, idx) + 1]>>
    ELSE <<>>

ZeroEmbStats ==
    [total |-> 0, success |-> 0, failed |-> 0, title_generated |-> 0,
     summary_generated |-> 0]

EmbIdle ==
    [pc |-> "off", table |-> <<>>, table0 |-> <<>>, force_update |-> FALSE,
     batch_size |-> 1, lim |-> 0, articles |-> <<>>, i |-> 0, idx |-> 0,
     title_indices |-> <<>>, summary_indices |-> <<>>,
     title_embeddings |-> <<>>, summary_embeddings |-> <<>>,
     expired |-> FALSE, stats |-> ZeroEmbStats, batches |-> <<>>, updates |-> <<>>]

(***************************************************************************)
(* main and run_all_scrapers (scripts/run_all_scrapers.py).                *)
(***************************************************************************)

\* lines 42-46: the site classes, in the order they are run
scraper_classes == <<"TVBS", "SETN", "CT">>

\* lines 59-68
ZeroTotalStats ==
    [total_sites |-> Len(scraper_classes), success_sites |-> 0, failed_sites |-> 0,
     total_articles |-> 0, db_inserted |-> 0, db_updated |-> 0, db_skipped |-> 0,
     db_failed |-> 0]

\* lines 162-171: --date is parsed with "%Y-%m-%d"; without it the date is
\* today
ParseDateArg(date_arg) ==
    CASE date_arg = "" -> [ok |-> TRUE, date |-> "now"]
      [] date_arg = "2026-01-05" -> [ok |-> TRUE, date |-> date_arg]
      [] OTHER -> [ok |-> FALSE, date |-> ""]

\* the exit code of the process when main returns (line 184): the module
\* calls main() and never sys.exit
ExitOfReturn == 0

\* the frame: exit_code is -1 while the process runs; trace keeps, per
\* site that was run, what happened there
RasIdle ==
    [pc |-> "off", date_arg |-> "", save_to_db |-> TRUE, idx |-> 0,
     total_stats |-> ZeroTotalStats, returned |-> FALSE, exit_code |-> -1,
     message |-> FALSE, trace |-> <<>>]

(***************************************************************************)
(* The files a pipeline writes (scraper.py, run_all_scrapers.py).          *)
(***************************************************************************)

\* a path: directory, name of the file, and the number in the name
Path(dir, name, k) == [dir |-> dir, name |-> name, k |-> k]

\* scraper.py line 629: raw_data_{target_date.strftime('%Y%m%d')}
raw_data_dir == "raw_data_20260105"

\* run_all_scrapers.py line 75: results/{site_name}_{date_str}.json
output_file(site_name) == Path("results", site_name, 0)

\* lines 654, 396, 443: the files of list page k
PageFiles(k) ==
    {Path(raw_data_dir, "page", k), Path(raw_data_dir, "page_llm_input", k),
     Path(raw_data_dir, "page_llm_query", k)}

\* lines 699, 709: the part after 'newsid=' if the link has one, else the
\* position of the article in the run; no link of the three sites has one
\* (the links of SETN carry NewsID=)
HasNewsidParam(link) == FALSE

news_id(link, i) == IF HasNewsidParam(link) THEN [newsid |-> link] ELSE i

\* lines 700, 559: the files of the article at position i
ArticleFiles(link, i, fetched) ==
    (IF fetched THEN {Path(raw_data_dir, "article", news_id(link, i))} ELSE {})
    \cup {Path(raw_data_dir, "article_llm_input", news_id(link, i))}

\* the directory tree: files holds, per path, who wrote it last; writers
\* keeps everyone who ever wrote it
NoFiles == [debug |-> FALSE, files |-> {}, writers |-> {}]

\* open(path, "w") and write, by the pipeline of a site
WriteFiles(tree, paths, by) ==
    [tree EXCEPT
        !.files = {f \in @ : f.path \notin paths} \cup
                  {[path |-> p, by |-> by] : p \in paths},
        !.writers = @ \cup {<<p, by>> : p \in paths}]

(***************************************************************************)
(* Inputs.                                                                 *)
(***************************************************************************)
Runs == {1, 2}

\* caller 0 is a direct call of save_scraper_results_to_db
Callers == Runs \cup {0}

\* "[" {b1} "," {b2} ... "]"
RECURSIVE ObjectsText(_)
ObjectsText(bs) ==
    IF bs = <<>> THEN <<>>
    ELSE <<"{", Head(bs), "}">>
         \o (IF Len(bs) > 1 THEN <<",">> ELSE <<>>) \o ObjectsText(Tail(bs))

ArrayText(bs) == <<"[">> \o ObjectsText(bs) \o <<"]">>

Prefixes(t) == {SubSeq(t, 1, n) : n \in 0..Len(t)}

SeqsUpTo(S, n) == UNION {[1..k -> S] : k \in 0..n}

\* a page the site does not serve (scrape_list_page returns "")
EmptyContent == [tiers |-> {}, len |-> 0, pad |-> 0]

\* a page whose listing the first pattern finds
OkContent == [tiers |-> {1}, len |-> 500, pad |-> 0]

ContentLens == {0, 99, 100, 8001}

\* the pages: which patterns of extract_news_block match (tiers), the
\* length of the reduced text (len) and how much of it is whitespace at
\* its ends (pad)
Contents ==
    {c \in [tiers : SUBSET {1, 2, 3}, len : ContentLens, pad : {0, 1}] :
        c.pad <= c.len}

PageInput(content, reply1, reply2) ==
    [content |-> content, reply1 |-> reply1, reply2 |-> reply2]

\* the list pages of the runs: down; two articles; a reply cut after its
\* third object whose repair fails (c and a resolve to the same URL, d is
\* an article of another day)
PageKinds ==
    {PageInput(EmptyContent, Raises, Raises),
     PageInput(OkContent, Replies(ArrayText(<<"a", "b">>)), Raises),
     PageInput(OkContent,
               Replies(SubSeq(ArrayText(<<"c", "d", "a">>), 1, 12)), Raises)}

\* an entry of log: the call, its URL if it has one and, for the
\* properties, whether that URL was a row of the table at the time and
\* how many rows the table had
\* out is what the call gave: "ok" or "empty" for a detail fetch, the
\* kind of reply for a detail-extraction call
NoEvent(ev) ==
    [ev |-> ev, url |-> EmptyUrl, stored |-> FALSE, rows |-> 0, out |-> ""]
UrlEvent(ev, u, rows) ==
    [ev |-> ev, url |-> u, stored |-> u \in StoreUrls(rows), rows |-> Len(rows),
     out |-> ""]
DetailEvent(ev, u, rows, out) == [UrlEvent(ev, u, rows) EXCEPT !.out = out]

CallEvents(calls) ==
    [j \in 1..Len(calls) |->
        NoEvent(IF calls[j] = "extract" THEN "llm_extract" ELSE "llm_fix")]

HistFrame == [after |-> {}, cut |-> FALSE, candidates |-> <<>>]

ElIdle == [ElFrame("SETN", EmptyContent) EXCEPT !.pc = "idle"]

\* the default of the parameter max_articles of scrape_news
DefaultMaxArticles == 15

\* the caps of the runs: none at all, one that cuts, and the default
Caps == {0, 1, DefaultMaxArticles}

(***************************************************************************)
(* scrape_news inside run_all_scrapers, one run r.                         *)
(***************************************************************************)
Finished(r) == pc[r] \in {"done", "site_failed"}

\* run_all_scrapers lines 81-91, scrape_news lines 622-640
Start(r) ==
    /\ pc[r] = "idle"
    /\ \E cap \in Caps : max_articles' = [max_articles EXCEPT ![r] = cap]
    /\ pc' = [pc EXCEPT ![r] = "list"]
    /\ page' = [page EXCEPT ![r] = 1]
    /\ hist' = [hist EXCEPT ![r].after = {q \in Runs : Finished(q)}]
    /\ UNCHANGED <<fs, ras, emb, el, store, upstream, run_site, all_links, unique_links, flt,
                   articles_data, stats, log>>

\* the loop is over: range(1, num_pages + 1) is exhausted
PagesDone(p) == p > NumPages

\* lines 643-665: one iteration of the list-page loop
ListPage(r) ==
    /\ pc[r] = "list" /\ ~PagesDone(page[r])
    /\ LET in == upstream[page[r]]
           e  == extract_news_links(run_site[r], in.content, in.reply1, in.reply2)
       IN  /\ log' = [log EXCEPT ![r] =
                         @ \o <<NoEvent("list_fetch")>> \o CallEvents(e.calls)]
           /\ IF e.escaped
              THEN /\ pc' = [pc EXCEPT ![r] = "site_failed"]
                   /\ UNCHANGED <<all_links, page>>
              ELSE /\ all_links' = [all_links EXCEPT ![r] = @ \o e.links]
                   /\ page' = [page EXCEPT ![r] = @ + 1]
                   /\ UNCHANGED pc
    /\ UNCHANGED <<fs, ras, emb, el, store, upstream, run_site, unique_links, flt, articles_data,
                   max_articles, stats, hist>>

\* lines 667-678: deduplication, then the call of filter_existing_links
Dedup(r) ==
    /\ pc[r] = "list" /\ PagesDone(page[r])
    /\ unique_links' = [unique_links EXCEPT ![r] = DedupLinks(all_links[r])]
    /\ flt' = [flt EXCEPT ![r] = [FltFrame EXCEPT
                                    !.input = DedupLinks(all_links[r])]]
    /\ hist' = [hist EXCEPT ![r].candidates = DedupLinks(all_links[r])]
    /\ log' = [log EXCEPT ![r] = Append(@, NoEvent("dedup"))]
    /\ pc' = [pc EXCEPT ![r] = "filter"]
    /\ UNCHANGED <<fs, ras, emb, el, store, upstream, run_site, page, all_links, articles_data,
                   max_articles, stats>>

\* filter_existing_links lines 40-45: one batch lookup
FilterBatch(r) ==
    /\ pc[r] = "filter" /\ flt[r].input # <<>>
    /\ ~BatchesDone(flt[r].input, flt[r].i)
    /\ LET batch_links == BatchLinks(flt[r].input, flt[r].i)
       IN  flt' = [flt EXCEPT
                ![r].i = @ + batch_size,
                ![r].existing_urls = @ \cup QueryExisting(batch_links, store),
                ![r].queries = Append(@, batch_links),
                ![r].first_rows = IF flt[r].queries = <<>> THEN Len(store) ELSE @,
                ![r].seen_stored = @ \cup
                    {u \in StoreUrls(store) :
                        \E j \in flt[r].i + 1 .. flt[r].i + batch_size :
                            j <= Len(flt[r].input) /\ LinkOf(flt[r].input[j]) = u}]
    /\ log' = [log EXCEPT ![r] = Append(@, NoEvent("lookup"))]
    /\ UNCHANGED <<fs, ras, emb, el, store, upstream, run_site, pc, page, all_links, unique_links,
                   articles_data, max_articles, stats, hist>>

\* lines 60-62: get_db, a query or close raised; the function returns []
FilterFail(r) ==
    /\ pc[r] = "filter" /\ flt[r].input # <<>>
    /\ flt' = [flt EXCEPT ![r].failed = TRUE]
    /\ unique_links' = [unique_links EXCEPT ![r] = FailClosedResult(flt[r].input)]
    /\ log' = [log EXCEPT ![r] = Append(@, NoEvent("lookup_failed"))]
    /\ pc' = [pc EXCEPT ![r] = "limit"]
    /\ UNCHANGED <<fs, ras, emb, el, store, upstream, run_site, page, all_links, articles_data,
                   max_articles, stats, hist>>

\* lines 26-27 and 47-58: the return of filter_existing_links
FilterReturn(r) ==
    /\ pc[r] = "filter"
    /\ flt[r].input = <<>> \/ BatchesDone(flt[r].input, flt[r].i)
    /\ unique_links' = [unique_links EXCEPT ![r] =
                           FilteredLinks(flt[r].input, flt[r].existing_urls)]
    /\ pc' = [pc EXCEPT ![r] = "limit"]
    /\ UNCHANGED <<fs, ras, emb, el, store, upstream, run_site, page, all_links, flt,
                   articles_data, max_articles, stats, log, hist>>

\* a slice that keeps one link more than the cap
LimitLinksOneMore(links, cap) == PySlice(links, 0, cap + 1)

\* unique_links[:max_articles]
LimitLinks(links, cap) == PySlice(links, 0, cap)

\* lines 680-689
Limit(r) ==
    /\ pc[r] = "limit"
    /\ unique_links' = [unique_links EXCEPT ![r] =
                           LimitLinks(@, max_articles[r])]
    /\ hist' = [hist EXCEPT ![r].cut =
                   Len(LimitLinks(unique_links[r], max_articles[r]))
                       < Len(unique_links[r])]
    /\ pc' = [pc EXCEPT ![r] = "detail"]
    /\ UNCHANGED <<fs, ras, emb, el, store, upstream, run_site, page, all_links, flt,
                   articles_data, max_articles, stats, log>>

\* what a detail fetch and the detail-extraction call after it can give
DetailOutcomes == BOOLEAN \X DetailReplies

\* the outcomes taken in the runs of Spec: all succeeds, or all fails
RunOutcomes == {<<TRUE, "both">>, <<FALSE, "raise">>}

\* lines 690-719: one iteration of the article loop; an exception that
\* extract_article_info lets through leaves scrape_news
DetailOf(r, outcomes) ==
    /\ pc[r] = "detail" /\ Len(articles_data[r]) < Len(unique_links[r])
    /\ LET pair == unique_links[r][Len(articles_data[r]) + 1]
       IN  \E o \in outcomes :
             LET fetch_ok == o[1]
                 reply == o[2]
                 article_content == scrape_page(fetch_ok)
                 info == extract_article_info(article_content, reply)
                 escapes == reply = "raise" /\ ArticleInfoHandler("LLMError") = "none"
             IN  /\ log' = [log EXCEPT ![r] =
                        @ \o <<DetailEvent("detail_fetch", LinkOf(pair), store,
                                           IF article_content = "" THEN "empty" ELSE "ok"),
                               DetailEvent("llm_detail", LinkOf(pair), store, reply)>>]
                 /\ IF escapes
                    THEN /\ pc' = [pc EXCEPT ![r] = "site_failed"]
                         /\ UNCHANGED articles_data
                    ELSE /\ articles_data' = [articles_data EXCEPT ![r] =
                                Append(@, Article(TitleOf(pair), info[1], info[2],
                                                  TargetDate, LinkOf(pair)))]
                         /\ UNCHANGED pc
    /\ UNCHANGED <<fs, ras, emb, el, store, upstream, run_site, page, all_links, unique_links,
                   flt, max_articles, stats, hist>>

Detail(r) == DetailOf(r, RunOutcomes)

\* scrape_news lines 731-744 and run_all_scrapers lines 93-120: the result
\* is written and returned; a result without articles is a failed site
Finish(r) ==
    /\ pc[r] = "detail" /\ Len(articles_data[r]) = Len(unique_links[r])
    /\ pc' = [pc EXCEPT ![r] = IF articles_data[r] # <<>> THEN "save" ELSE "done"]
    /\ UNCHANGED <<fs, ras, emb, el, store, upstream, run_site, page, all_links, unique_links, flt,
                   articles_data, max_articles, stats, log, hist>>

DbOutcomes == {"ok", "error", "no_session"}

\* run_all_scrapers lines 103-117: save_scraper_results_to_db
Save(r) ==
    /\ pc[r] = "save"
    /\ \E db \in DbOutcomes :
         LET res == save_scraper_results_to_db(
                        [has_articles |-> TRUE, articles |-> articles_data[r]],
                        run_site[r], store, db)
         IN  /\ store' = res.rows
             /\ stats' = [stats EXCEPT ![r] = res.stats]
             /\ pc' = [pc EXCEPT ![r] =
                          IF res.stats.raised THEN "site_failed" ELSE "done"]
    /\ log' = [log EXCEPT ![r] = Append(@, NoEvent("insert"))]
    /\ UNCHANGED <<fs, ras, emb, el, upstream, run_site, page, all_links, unique_links, flt,
                   articles_data, max_articles, hist>>

\* a call of save_scraper_results_to_db by another caller
\* (save_articles_batch, the main() of a site module):
\* a batch that holds one URL twice, a URL the runs may find too
DuplicateBatch ==
    [has_articles |-> TRUE, articles |->
        <<Article("t1", "", "", "2026/01/05", Url("www.setn.com", 1)),
          Article("t9", "", "", "2026/01/05", Url("www.setn.com", 1))>>]

DirectSaveOf(results, outcomes) ==
    /\ \E result \in results, db \in outcomes :
         LET res == save_scraper_results_to_db(result, "SETN", store, db)
         IN  /\ store' = res.rows
             /\ stats' = [stats EXCEPT ![0] = res.stats]
    /\ UNCHANGED <<fs, ras, emb, el, upstream, run_site, pc, page, all_links, unique_links, flt,
                   articles_data, max_articles, log, hist>>

InitRuns ==
    /\ store = <<>>
    /\ pc = [r \in Runs |-> "idle"]
    /\ page = [r \in Runs |-> 0]
    /\ all_links = [r \in Runs |-> <<>>]
    /\ unique_links = [r \in Runs |-> <<>>]
    /\ flt = [r \in Runs |-> FltFrame]
    /\ articles_data = [r \in Runs |-> <<>>]
    /\ max_articles = [r \in Runs |-> 0]
    /\ stats = [c \in Callers |-> ZeroStats]
    /\ log = [r \in Runs |-> <<>>]
    /\ hist = [r \in Runs |-> HistFrame]

Init ==
    /\ InitRuns
    /\ el = ElIdle
    /\ run_site = [r \in Runs |-> "SETN"]
    /\ upstream \in [1..NumPages -> PageKinds]
    /\ emb = EmbIdle
    /\ ras = RasIdle
    /\ fs = NoFiles

RunStep(r) ==
    \/ Start(r)
    \/ ListPage(r)
    \/ Dedup(r)
    \/ FilterBatch(r)
    \/ FilterFail(r)
    \/ FilterReturn(r)
    \/ Limit(r)
    \/ Detail(r)
    \/ Finish(r)
    \/ Save(r)

\* a direct call that overlaps the runs
DirectSave == DirectSaveOf({DuplicateBatch}, {"ok"})

Next == (\E r \in Runs : RunStep(r)) \/ DirectSave

Spec == Init /\ [][Next]_vars

(***************************************************************************)
(* SpecLinks: the list-page loop of one run with extract_news_links taken  *)
(* step by step, the page content and the model's outcomes chosen when     *)
(* they are read.                                                          *)
(***************************************************************************)
ItemBodies == {"a", "b", "nt", "ml"}

\* well-formed arrays and every truncation of one
TruncatedReplies ==
    UNION {Prefixes(ArrayText(bs)) : bs \in SeqsUpTo(ItemBodies, MaxItems)}

Alphabet == {"[", "]", "{", "}", ",", "a", "x", "str"}

\* every short text
ShortTexts == SeqsUpTo(Alphabet, MaxTextLen)

\* replies with framing, prose, whitespace, scalars
FramedTexts ==
    {<<"fence_json", "ws">> \o ArrayText(<<"a", "b">>) \o <<"ws", "fence">>,
     <<"fence", "ws">> \o ArrayText(<<"a">>) \o <<"ws", "fence">>,
     <<"<think>", "x", "</think>", "ws">> \o ArrayText(<<"b">>),
     <<"<think>", "x", "</think>", "fence_json", "ws">> \o ArrayText(<<"a">>)
         \o <<"ws", "fence">>,
     <<"ws", "[", "{", "a", "}", "ws", ",", "ws", "{", "b", "}">>,
     <<"[", "{", "a", "}", ",", "ws", "{", "b", "}", ",", "ws", "{">>,
     <<"num">>, <<"null">>, <<"estr">>,
     <<"[", "{", "a", "}", ",", "str", "]">>,
     <<"[", "{", "et", "}", ",", "{", "wt", "}", ",", "{", "nl", "}", "]">>,
     <<"[", "{", "}", ",", "{", "c", "}", "]">>,
     ArrayText(<<"a", "d">>)}

PrefixedReplies == {<<"x">> \o t : t \in TruncatedReplies}

ReplyTexts == TruncatedReplies \cup ShortTexts \cup FramedTexts \cup PrefixedReplies

AnyReplies == {Raises} \cup {Replies(t) : t \in ReplyTexts}

FewReplies ==
    {Raises, Replies(ArrayText(<<"a", "b">>)), Replies(<<"[", "{", "a", "}">>)}

FixReplies ==
    {Raises, Replies(<<"x">>), Replies(<<"[", "]">>),
     Replies(ArrayText(<<"b">>)),
     Replies(<<"fence_json", "ws">> \o ArrayText(<<"a", "b">>) \o <<"ws", "fence">>),
     Replies(<<"{", "a", "}">>),
     Replies(ArrayText(<<"nt">>)),
     Replies(<<"[", "{", "b", "}">>)}

\* the outcomes of the extraction call tried for frame e: every reply for
\* the first page of a SETN run whose listing was found, a few otherwise
ExtractReplies(e, p) ==
    IF e.pc # "invoke" THEN {Raises}
    ELSE IF p = 1 /\ e.site = "SETN" /\ e.content = [tiers |-> {1}, len |-> MinContentLen, pad |-> 0]
         THEN AnyReplies ELSE FewReplies

RepairReplies(e) == IF e.pc = "fix" THEN FixReplies ELSE {Raises}

\* line 662: the call
LinksCall(r) ==
    /\ pc[r] = "list" /\ ~PagesDone(page[r]) /\ el.pc = "idle"
    /\ \E content \in Contents : el' = ElFrame(run_site[r], content)
    /\ log' = [log EXCEPT ![r] = Append(@, NoEvent("list_fetch"))]
    /\ UNCHANGED <<fs, ras, emb, store, upstream, run_site, pc, page, all_links, unique_links,
                   flt, articles_data, max_articles, stats, hist>>

\* one step of the body of extract_news_links
LinksStep(r) ==
    /\ pc[r] = "list" /\ el.pc \notin {"idle", "done"}
    /\ \E reply1 \in ExtractReplies(el, page[r]), reply2 \in RepairReplies(el) :
          el' = ElStep(el, reply1, reply2)
    /\ UNCHANGED <<fs, ras, emb, store, upstream, run_site, pc, page, all_links, unique_links,
                   flt, articles_data, max_articles, stats, log, hist>>

\* lines 662-665: the return into the loop; an exception that escaped
\* extract_news_links leaves scrape_news
LinksReturn(r) ==
    /\ pc[r] = "list" /\ el.pc = "done"
    /\ el' = ElIdle
    /\ log' = [log EXCEPT ![r] = @ \o CallEvents(el.calls)]
    /\ IF el.escaped
       THEN /\ pc' = [pc EXCEPT ![r] = "site_failed"]
            /\ UNCHANGED <<all_links, page>>
       ELSE /\ all_links' = [all_links EXCEPT ![r] = @ \o el.links]
            /\ page' = [page EXCEPT ![r] = @ + 1]
            /\ UNCHANGED pc
    /\ UNCHANGED <<fs, ras, emb, store, upstream, run_site, unique_links, flt, articles_data,
                   max_articles, stats, hist>>

NoUpstream == [p \in 1..NumPages |-> PageInput(EmptyContent, Raises, Raises)]

InitLinks ==
    /\ store = <<>>
    /\ pc = [r \in Runs |-> IF r = 1 THEN "list" ELSE "idle"]
    /\ page = [r \in Runs |-> IF r = 1 THEN 1 ELSE 0]
    /\ all_links = [r \in Runs |-> <<>>]
    /\ unique_links = [r \in Runs |-> <<>>]
    /\ flt = [r \in Runs |-> FltFrame]
    /\ articles_data = [r \in Runs |-> <<>>]
    /\ max_articles = [r \in Runs |-> 0]
    /\ stats = [c \in Callers |-> ZeroStats]
    /\ log = [r \in Runs |-> <<>>]
    /\ hist = [r \in Runs |-> HistFrame]
    /\ el = ElIdle
    /\ run_site \in {[r \in Runs |-> s] : s \in Sites}
    /\ upstream = NoUpstream
    /\ emb = EmbIdle
    /\ ras = RasIdle
    /\ fs = NoFiles

NextLinks == LinksCall(1) \/ LinksStep(1) \/ LinksReturn(1)

SpecLinks == InitLinks /\ [][NextLinks]_vars

(***************************************************************************)
(* SpecFilter: one call of filter_existing_links on candidate lists of up  *)
(* to MaxBatches batches and one more link, against a table nobody else    *)
(* writes.                                                                 *)
(***************************************************************************)
Candidate(i) == <<"t1", Url("www.setn.com", i)>>

CandidateList(n) == [i \in 1..n |-> Candidate(i)]

FilterLens ==
    {0, 1, 2} \cup
    {k * batch_size + d : k \in 1..MaxBatches, d \in {-1, 0, 1}}

StoredRow(i) ==
    RowOf(Article("t1", "", "", TargetDate, Url("www.setn.com", i)), "SETN")

RowsOf(paths) ==
    LET k == Cardinality(paths)
        nth(j) == CHOOSE p \in paths : Cardinality({q \in paths : q < p}) = j - 1
    IN  [j \in 1..k |-> StoredRow(nth(j))]

\* which candidates of a list of n are stored already
StoredPaths(n) ==
    {{}, {1}, {n}, 1..n, {p \in 1..n : p % 2 = 0}, {n + 1},
     {batch_size}, {batch_size + 1}, batch_size .. (batch_size + 1),
     (batch_size + 1)..n}

InitFilter ==
    /\ pc = [r \in Runs |-> IF r = 1 THEN "filter" ELSE "idle"]
    /\ page = [r \in Runs |-> 0]
    /\ all_links = [r \in Runs |-> <<>>]
    /\ articles_data = [r \in Runs |-> <<>>]
    /\ max_articles = [r \in Runs |-> 0]
    /\ stats = [c \in Callers |-> ZeroStats]
    /\ log = [r \in Runs |-> <<>>]
    /\ hist = [r \in Runs |-> HistFrame]
    /\ el = ElIdle
    /\ run_site = [r \in Runs |-> "SETN"]
    /\ upstream = NoUpstream
    /\ emb = EmbIdle
    /\ ras = RasIdle
    /\ fs = NoFiles
    /\ \E n \in FilterLens :
         /\ unique_links = [r \in Runs |-> IF r = 1 THEN CandidateList(n) ELSE <<>>]
         /\ flt = [r \in Runs |->
                     IF r = 1 THEN [FltFrame EXCEPT !.input = CandidateList(n)]
                     ELSE FltFrame]
         /\ \E paths \in StoredPaths(n) : store = RowsOf(paths \ {0})

NextFilter == FilterBatch(1) \/ FilterFail(1) \/ FilterReturn(1)

SpecFilter == InitFilter /\ [][NextFilter]_vars

(***************************************************************************)
(* SpecDedup: the deduplication of scrape_news and the call of             *)
(* filter_existing_links on every list all_links of up to MaxLinks pairs:  *)
(* two titles for one URL, and two more URLs.                              *)
(***************************************************************************)
FoundPairs ==
    {<<"t1", Url("www.setn.com", 1)>>, <<"t3", Url("www.setn.com", 1)>>,
     <<"t2", Url("www.setn.com", 2)>>, <<"t4", Url("www.setn.com", 3)>>}

InitDedup ==
    /\ store = <<>>
    /\ pc = [r \in Runs |-> IF r = 1 THEN "list" ELSE "idle"]
    /\ page = [r \in Runs |-> IF r = 1 THEN NumPages + 1 ELSE 0]
    /\ all_links \in {[r \in Runs |-> IF r = 1 THEN found ELSE <<>>] :
                         found \in SeqsUpTo(FoundPairs, MaxLinks)}
    /\ unique_links = [r \in Runs |-> <<>>]
    /\ flt = [r \in Runs |-> FltFrame]
    /\ articles_data = [r \in Runs |-> <<>>]
    /\ max_articles = [r \in Runs |-> DefaultMaxArticles]
    /\ stats = [c \in Callers |-> ZeroStats]
    /\ log = [r \in Runs |-> <<>>]
    /\ hist = [r \in Runs |-> HistFrame]
    /\ el = ElIdle
    /\ run_site = [r \in Runs |-> "SETN"]
    /\ upstream = NoUpstream
    /\ emb = EmbIdle
    /\ ras = RasIdle
    /\ fs = NoFiles

NextDedup == Dedup(1) \/ FilterBatch(1) \/ FilterReturn(1)

SpecDedup == InitDedup /\ [][NextDedup]_vars

(***************************************************************************)
(* SpecDetail: the article loop of scrape_news and the save after it, on  *)
(* up to MaxArticles new candidates, with every outcome of the fetch and  *)
(* of the detail-extraction call, against a table that holds one row of   *)
(* an earlier run.                                                         *)
(***************************************************************************)
EarlierRow == StoredRow(MaxArticles + 1)

InitDetail ==
    /\ store \in {<<>>, <<EarlierRow>>}
    /\ pc = [r \in Runs |-> IF r = 1 THEN "detail" ELSE "idle"]
    /\ page = [r \in Runs |-> IF r = 1 THEN NumPages + 1 ELSE 0]
    /\ \E n \in 0..MaxArticles :
         /\ all_links = [r \in Runs |-> IF r = 1 THEN CandidateList(n) ELSE <<>>]
         /\ unique_links = all_links
    /\ flt = [r \in Runs |-> FltFrame]
    /\ articles_data = [r \in Runs |-> <<>>]
    /\ max_articles = [r \in Runs |-> DefaultMaxArticles]
    /\ stats = [c \in Callers |-> ZeroStats]
    /\ log = [r \in Runs |-> <<>>]
    /\ hist = [r \in Runs |-> HistFrame]
    /\ el = ElIdle
    /\ run_site = [r \in Runs |-> "SETN"]
    /\ upstream = NoUpstream
    /\ emb = EmbIdle
    /\ ras = RasIdle
    /\ fs = NoFiles

NextDetail == DetailOf(1, DetailOutcomes) \/ Finish(1) \/ Save(1)

SpecDetail == InitDetail /\ [][NextDetail]_vars

(***************************************************************************)
(* SpecEmbed: one run of generate_embeddings_for_articles on every table   *)
(* of up to MaxRecords rows, with every outcome of the service calls, of   *)
(* the commits and of the reads of expired records.                        *)
(***************************************************************************)
scrape_vars == <<fs, ras, el, store, upstream, run_site, pc, page, all_links, unique_links,
                 flt, articles_data, max_articles, stats, log, hist>>

\* the rows of the table under the ids of a list
RowsAt(table, ids) == [j \in 1..Len(ids) |-> table[ids[j]]]

TextsAt(batch, indices, title) ==
    [j \in 1..Len(indices) |->
        IF title THEN batch[indices[j] + 1].title ELSE batch[indices[j] + 1].summary]

\* lines 46-95: the client, the query and the counters
EmbStart ==
    /\ emb.pc = "start"
    /\ \E key_ok \in BOOLEAN :
         LET articles == QueryArticles(emb.table, emb.force_update, emb.lim)
         IN  emb' = IF ~key_ok \/ articles = <<>>
                    THEN [emb EXCEPT !.pc = "done"]
                    ELSE [emb EXCEPT !.pc = "batch", !.articles = articles,
                                     !.i = 0,
                                     !.stats = [ZeroEmbStats EXCEPT
                                                   !.total = Len(articles)]]
    /\ UNCHANGED scrape_vars

\* what the two service calls of a batch give
ReplyPairs ==
    ({"ok", "fail"} \X {"ok", "fail"}) \cup {<<"short", "short">>}

\* the reply of a call that is not made does not matter
NoCallReply(texts, reply) == texts = <<>> => reply = "ok"

\* lines 98-150: the batch is cut, the texts are collected and the two
\* service calls are made; reading an expired record asks the database
EmbBatch ==
    /\ emb.pc = "batch"
    /\ \E read_ok \in BOOLEAN, replies \in ReplyPairs :
         LET tr == replies[1]
             sr == replies[2]
             ids == PySlice(emb.articles, emb.i, emb.i + emb.batch_size)
             batch_articles == RowsAt(emb.table, ids)
             title_indices == TitleIndices(batch_articles, emb.force_update)
             summary_indices == SummaryIndices(batch_articles, emb.force_update)
             titles == TextsAt(batch_articles, title_indices, TRUE)
             summaries == TextsAt(batch_articles, summary_indices, FALSE)
         IN  /\ read_ok \/ emb.expired
             /\ titles = <<>> \/ summaries = <<>> => replies \in {"ok", "fail"} \X {"ok", "fail"}
             /\ NoCallReply(titles, tr)
             /\ NoCallReply(summaries, sr)
             /\ emb' =
                  IF ~read_ok
                  THEN [emb EXCEPT !.pc = "aborted"]
                  ELSE [emb EXCEPT
                          !.pc = "update", !.idx = 0,
                          !.title_indices = title_indices,
                          !.summary_indices = summary_indices,
                          !.title_embeddings = CallService(titles, tr),
                          !.summary_embeddings = CallService(summaries, sr),
                          !.batches = Append(@,
                              [ids |-> ids,
                               title_ids |-> [j \in 1..Len(title_indices) |->
                                                 ids[title_indices[j] + 1]],
                               summary_ids |-> [j \in 1..Len(summary_indices) |->
                                                   ids[summary_indices[j] + 1]],
                               title_call |-> IF titles = <<>> THEN "none" ELSE tr,
                               summary_call |-> IF summaries = <<>> THEN "none" ELSE sr,
                               failed_before |-> emb.stats.failed,
                               table_before |-> emb.table])]
    /\ UNCHANGED scrape_vars

\* what the database does in one iteration of the update loop: the commit
\* of line 174, the read of the expired title at line 176, and the read
\* of it in the handler at line 182
UpdateOutcomes ==
    {"ok", "commit_fails", "commit_fails_read_fails", "read_fails",
     "read_fails_twice"}

\* lines 153-184: one iteration of the update loop; an exception raised
\* inside the handler leaves the function through the finally of line 200
EmbUpdate ==
    /\ emb.pc = "update"
    /\ \E o \in UpdateOutcomes :
         LET ids == PySlice(emb.articles, emb.i, emb.i + emb.batch_size)
             id == ids[emb.idx + 1]
             tv == NewVector(emb.title_indices, emb.title_embeddings, emb.idx)
             sv == NewVector(emb.summary_indices, emb.summary_embeddings, emb.idx)
             updated == tv # <<>> \/ sv # <<>>
             committed == updated /\ o \in {"ok", "read_fails", "read_fails_twice"}
             handled == updated /\ o # "ok"
             escapes == updated /\ o \in {"commit_fails_read_fails", "read_fails_twice"}
             row == [emb.table[id] EXCEPT
                        !.title_embedding = IF tv # <<>> THEN tv[1] ELSE @,
                        !.summary_embedding = IF sv # <<>> THEN sv[1] ELSE @]
             last == emb.idx + 1 = Len(ids)
             next_i == IF last THEN emb.i + emb.batch_size ELSE emb.i
         IN  /\ updated \/ o = "ok"
             /\ emb' = [emb EXCEPT
                  !.table = IF committed THEN [@ EXCEPT ![id] = row] ELSE @,
                  !.expired = @ \/ updated,
                  !.stats = [@ EXCEPT
                      !.title_generated = IF tv # <<>> THEN @ + 1 ELSE @,
                      !.summary_generated = IF sv # <<>> THEN @ + 1 ELSE @,
                      !.success = IF committed THEN @ + 1 ELSE @,
                      !.failed = IF handled THEN @ + 1 ELSE @],
                  !.updates = Append(@,
                      [id |-> id, updated |-> updated,
                       commit |-> IF ~updated THEN "none"
                                  ELSE IF committed THEN "ok" ELSE "failed",
                       outcome |-> o,
                       failed_before |-> emb.stats.failed,
                       failed_after |-> emb.stats.failed + (IF handled THEN 1 ELSE 0),
                       table_before |-> emb.table,
                       table_after |-> IF committed THEN [emb.table EXCEPT ![id] = row]
                                       ELSE emb.table]),
                  !.idx = IF last THEN 0 ELSE @ + 1,
                  !.i = next_i,
                  !.pc = IF escapes THEN "aborted"
                         ELSE IF ~last THEN "update"
                         ELSE IF next_i < Len(emb.articles) THEN "batch"
                         ELSE "done"]
    /\ UNCHANGED scrape_vars

\* the rows a table can hold when the run starts: record k has its own
\* title and synopsis and any of its vectors, or it has no synopsis and no
\* vectors, or an empty title and no vectors
EmbRowsOf(k) ==
    {EmbRow(k, "title" \o ToString(k), "synopsis" \o ToString(k), tv, sv) :
        tv \in {NoVector, OldVector}, sv \in {NoVector, OldVector}}
    \cup {EmbRow(k, "title" \o ToString(k), "", NoVector, NoVector),
          EmbRow(k, "", "synopsis" \o ToString(k), NoVector, NoVector)}

EmbTables ==
    UNION {{t \in [1..n -> UNION {EmbRowsOf(k) : k \in 1..n}] :
               \A k \in 1..n : t[k] \in EmbRowsOf(k)} : n \in 1..MaxRecords}

InitEmbed ==
    /\ InitRuns
    /\ el = ElIdle
    /\ run_site = [r \in Runs |-> "SETN"]
    /\ upstream = NoUpstream
    /\ ras = RasIdle
    /\ fs = NoFiles
    /\ \E table \in EmbTables, force_update \in BOOLEAN,
          b \in {1, MaxRecords}, lim \in {0, 1} :
         emb = [EmbIdle EXCEPT !.pc = "start", !.table = table, !.table0 = table,
                               !.force_update = force_update,
                               !.batch_size = b, !.lim = lim]

NextEmbed == EmbStart \/ EmbBatch \/ EmbUpdate

SpecEmbed == InitEmbed /\ [][NextEmbed]_vars

(***************************************************************************)
(* SpecSites: one run of the command line of run_all_scrapers.py, with     *)
(* every --date argument, with and without --no-db, and for every site     *)
(* every outcome of scrape_news and of the save.                           *)
(***************************************************************************)
other_vars == <<el, upstream, run_site, pc, page, all_links, unique_links, flt,
                articles_data, max_articles, stats, log, hist, emb, fs>>

\* what scrape_news returns for a site: up to MaxArticles articles of it
SiteArticles(s, n) ==
    [k \in 1..n |-> Article("t1", Unspecified, "", TargetDate, Url(SiteHost(s), k))]

\* lines 83-91: the scraper is built and scrape_news runs: it raises, or
\* it returns its result
ScrapeOutcomes(s) ==
    {[raised |-> TRUE, articles |-> <<>>]} \cup
    {[raised |-> FALSE, articles |-> SiteArticles(s, n)] : n \in 0..MaxArticles}

DateArgs == {"", "2026-01-05", "05/01/2026"}

\* lines 149-171: the arguments are parsed; a --date that does not parse
\* is reported and main returns
Main ==
    /\ ras.pc = "main"
    /\ ras' = IF ParseDateArg(ras.date_arg).ok
              THEN [ras EXCEPT !.pc = "sites"]
              ELSE [ras EXCEPT !.pc = "exit", !.message = TRUE,
                               !.exit_code = ExitOfReturn]
    /\ UNCHANGED <<store, other_vars>>

\* lines 71-126: one iteration of the loop over the site classes
SiteIteration ==
    /\ ras.pc = "sites" /\ ras.idx < Len(scraper_classes)
    /\ LET site_name == scraper_classes[ras.idx + 1]
       IN  \E o \in ScrapeOutcomes(site_name), db \in DbOutcomes :
             LET scraped == ~o.raised /\ o.articles # <<>>
                 saving == scraped /\ ras.save_to_db
                 res == save_scraper_results_to_db(
                            [has_articles |-> TRUE, articles |-> o.articles],
                            site_name, store, db)
                 save_raised == saving /\ res.stats.raised
                 saved == saving /\ ~res.stats.raised
                 t == ras.total_stats
             IN  /\ saving \/ db = "ok"
                 /\ store' = IF saved THEN res.rows ELSE store
                 /\ ras' = [ras EXCEPT
                      !.idx = @ + 1,
                      !.total_stats = [t EXCEPT
                          !.total_articles = IF scraped THEN @ + Len(o.articles) ELSE @,
                          !.success_sites = IF scraped THEN @ + 1 ELSE @,
                          !.failed_sites = IF ~scraped \/ save_raised THEN @ + 1 ELSE @,
                          !.db_inserted = IF saved THEN @ + res.stats.inserted ELSE @,
                          !.db_updated = IF saved THEN @ + res.stats.updated ELSE @,
                          !.db_skipped = IF saved THEN @ + res.stats.skipped ELSE @,
                          !.db_failed = IF saved THEN @ + res.stats.failed ELSE @],
                      !.trace = Append(@,
                          [site |-> site_name,
                           scrape |-> IF o.raised THEN "raised"
                                      ELSE IF o.articles = <<>> THEN "empty"
                                      ELSE "articles",
                           save |-> IF ~saving THEN "none"
                                    ELSE IF save_raised THEN "raised"
                                    ELSE IF res.stats.error # "" THEN "error"
                                    ELSE "ok"])]
    /\ UNCHANGED other_vars

\* lines 128-146 and 174-184: the statistics are printed and returned,
\* main returns and the process ends
SitesReturn ==
    /\ ras.pc = "sites" /\ ras.idx = Len(scraper_classes)
    /\ ras' = [ras EXCEPT !.pc = "exit", !.returned = TRUE,
                          !.exit_code = ExitOfReturn]
    /\ UNCHANGED <<store, other_vars>>

InitSites ==
    /\ InitRuns
    /\ el = ElIdle
    /\ run_site = [r \in Runs |-> "SETN"]
    /\ upstream = NoUpstream
    /\ emb = EmbIdle
    /\ fs = NoFiles
    /\ \E date_arg \in DateArgs, save_to_db \in BOOLEAN :
         ras = [RasIdle EXCEPT !.pc = "main", !.date_arg = date_arg,
                               !.save_to_db = save_to_db]

NextSites == Main \/ SiteIteration \/ SitesReturn

SpecSites == InitSites /\ [][NextSites]_vars

(***************************************************************************)
(* SpecFiles: the pipelines of two different sites run at the same time   *)
(* for one target date, with and without debug; every list page is served *)
(* and every save succeeds.                                                *)
(***************************************************************************)
file_frame == <<el, upstream, all_links, flt, max_articles, log, hist, emb, ras,
                run_site>>

SiteLinks(s, n) == [k \in 1..n |-> <<"t1", Url(SiteHost(s), k)>>]

\* scrape_news lines 643-665: one list page is fetched and handed to
\* extract_news_links; in debug mode both write their files
FilesPage(r) ==
    /\ pc[r] = "list" /\ page[r] <= NumPages
    /\ fs' = IF fs.debug THEN WriteFiles(fs, PageFiles(page[r]), run_site[r]) ELSE fs
    /\ page' = [page EXCEPT ![r] = @ + 1]
    /\ pc' = [pc EXCEPT ![r] = IF page[r] = NumPages THEN "detail" ELSE @]
    /\ UNCHANGED <<store, unique_links, articles_data, stats, file_frame>>

\* lines 690-719: one article is fetched and handed to extract_article_info
FilesArticle(r) ==
    /\ pc[r] = "detail" /\ Len(articles_data[r]) < Len(unique_links[r])
    /\ LET i == Len(articles_data[r]) + 1
           pair == unique_links[r][i]
       IN  \E fetch_ok \in BOOLEAN :
             /\ fs' = IF fs.debug
                      THEN WriteFiles(fs, ArticleFiles(LinkOf(pair), i, fetch_ok),
                                      run_site[r])
                      ELSE fs
             /\ articles_data' = [articles_data EXCEPT ![r] =
                    Append(@, Article(TitleOf(pair),
                                      IF fetch_ok THEN "reporter" ELSE Unspecified,
                                      "", TargetDate, LinkOf(pair)))]
    /\ UNCHANGED <<store, pc, page, unique_links, stats, file_frame>>

\* lines 731-744: the result is written to the output file
FilesOutput(r) ==
    /\ pc[r] = "detail" /\ Len(articles_data[r]) = Len(unique_links[r])
    /\ fs' = WriteFiles(fs, {output_file(run_site[r])}, run_site[r])
    /\ pc' = [pc EXCEPT ![r] = IF articles_data[r] # <<>> THEN "save" ELSE "done"]
    /\ UNCHANGED <<store, page, unique_links, articles_data, stats, file_frame>>

\* run_all_scrapers.py lines 103-117: the articles are saved
FilesSave(r) ==
    /\ pc[r] = "save"
    /\ LET res == save_scraper_results_to_db(
                      [has_articles |-> TRUE, articles |-> articles_data[r]],
                      run_site[r], store, "ok")
       IN  /\ store' = res.rows
           /\ stats' = [stats EXCEPT ![r] = res.stats]
    /\ pc' = [pc EXCEPT ![r] = "done"]
    /\ UNCHANGED <<fs, page, unique_links, articles_data, file_frame>>

InitFiles ==
    /\ store = <<>>
    /\ pc = [r \in Runs |-> "list"]
    /\ page = [r \in Runs |-> 1]
    /\ all_links = [r \in Runs |-> <<>>]
    /\ flt = [r \in Runs |-> FltFrame]
    /\ articles_data = [r \in Runs |-> <<>>]
    /\ max_articles = [r \in Runs |-> DefaultMaxArticles]
    /\ stats = [c \in Callers |-> ZeroStats]
    /\ log = [r \in Runs |-> <<>>]
    /\ hist = [r \in Runs |-> HistFrame]
    /\ el = ElIdle
    /\ upstream = NoUpstream
    /\ emb = EmbIdle
    /\ ras = RasIdle
    /\ run_site \in {f \in [Runs -> Sites] : f[1] # f[2]}
    /\ unique_links \in {[r \in Runs |-> SiteLinks(run_site[r], n[r])] :
                            n \in [Runs -> 0..MaxArticles]}
    /\ \E debug \in BOOLEAN : fs = [NoFiles EXCEPT !.debug = debug]

NextFiles ==
    \E r \in Runs : FilesPage(r) \/ FilesArticle(r) \/ FilesOutput(r) \/ FilesSave(r)

SpecFiles == InitFiles /\ [][NextFiles]_vars


(***************************************************************************)
(* SpecSave: one call of save_scraper_results_to_db on a table that is     *)
(* empty or holds the row an earlier call inserted, with every batch of up *)
(* to MaxArticles articles that are complete, lack a field or carry a date *)
(* of neither format, and with every outcome of the database.              *)
(* articles_data[1] keeps the articles of the call, log[1] that it was     *)
(* made.                                                                   *)
(***************************************************************************)
save_frame == <<fs, ras, emb, el, upstream, run_site, pc, page, all_links,
                unique_links, flt, max_articles, hist>>

SaveArticles ==
    {Article("t1", "r1", "s1", "2026/01/05", Url("www.setn.com", 1)),
     Article("t2", "", "", "2026-01-05", Url("www.setn.com", 2)),
     Article("t3", "r1", "", "2026/01/06", Url("www.setn.com", 1)),
     Article("", "r1", "s1", "2026/01/05", Url("www.setn.com", 3)),
     Article("t4", "r1", "s1", "2026/01/05", EmptyUrl),
     Article("t5", "r1", "s1", "", Url("www.setn.com", 3)),
     Article("t6", "r1", "s1", "01/05", Url("www.setn.com", 3))}

\* the result dicts: without the key 'articles', or with a list
SaveResults ==
    {[has_articles |-> FALSE, articles |-> <<>>]} \cup
    {[has_articles |-> TRUE, articles |-> as] :
        as \in SeqsUpTo(SaveArticles, MaxArticles)}

\* the tables the call can find
SaveTables ==
    {<<>>,
     ValidRows(<<Article("t1", "r1", "s1", "2026/01/05", Url("www.setn.com", 1))>>,
               "SETN")}

SaveCall ==
    /\ log[1] = <<>>
    /\ log' = [log EXCEPT ![1] = <<NoEvent("insert")>>]
    /\ \E result \in SaveResults, db \in DbOutcomes :
         LET res == save_scraper_results_to_db(result, "SETN", store, db)
         IN  /\ store' = res.rows
             /\ stats' = [stats EXCEPT ![0] = res.stats]
             /\ articles_data' = [articles_data EXCEPT ![1] = result.articles]
    /\ UNCHANGED save_frame

InitSave ==
    /\ store \in SaveTables
    /\ pc = [r \in Runs |-> "idle"]
    /\ page = [r \in Runs |-> 0]
    /\ all_links = [r \in Runs |-> <<>>]
    /\ unique_links = [r \in Runs |-> <<>>]
    /\ flt = [r \in Runs |-> FltFrame]
    /\ articles_data = [r \in Runs |-> <<>>]
    /\ max_articles = [r \in Runs |-> 0]
    /\ stats = [c \in Callers |-> ZeroStats]
    /\ log = [r \in Runs |-> <<>>]
    /\ hist = [r \in Runs |-> HistFrame]
    /\ el = ElIdle
    /\ run_site = [r \in Runs |-> "SETN"]
    /\ upstream = NoUpstream
    /\ emb = EmbIdle
    /\ ras = RasIdle
    /\ fs = NoFiles

NextSave == SaveCall

SpecSave == InitSave /\ [][NextSave]_vars

(***************************************************************************)
(* Properties of extract_news_links (SpecLinks).                           *)
(***************************************************************************)

CountEvents(events, ev) == Cardinality({j \in 1..Len(events) : events[j].ev = ev})

RECURSIVE CompleteObjectsFrom(_, _)
CompleteObjectsFrom(t, i) ==
    IF i + 2 > Len(t) THEN <<>>
    ELSE IF t[i] = "{" /\ t[i + 1] \in BodyTokens /\ t[i + 2] = "}"
         THEN <<t[i + 1]>> \o CompleteObjectsFrom(t, i + 3)
         ELSE CompleteObjectsFrom(t, i + 1)

CompleteObjects(t) == CompleteObjectsFrom(t, 1)

\* an array of well-formed items cut before its closing bracket, with at
\* least one complete object
IsCutArray(t) ==
    /\ CompleteObjects(t) # <<>>
    /\ \E bs \in SeqsUpTo({"a", "b"}, MaxItems) :
          t \in Prefixes(ArrayText(bs)) \ {ArrayText(bs)}

\* the (title, URL) pairs of well-formed items with relative links
LinksOfBodies(site, bs) ==
    [j \in 1..Len(bs) |->
        <<Bodies[bs[j]].title, Url(SiteHost(site), Bodies[bs[j]].link.path)>>]

\* C8: when the cleaned reply is an array cut before its closing bracket
\* with at least one complete object, and the repair call raises, the
\* links of all the complete objects are returned.
C8_RepairConvergence ==
    (el.pc = "done" /\ el.fix_err = "LLMError" /\ IsCutArray(el.cleaned))
        => el.links = LinksOfBodies(el.site, CompleteObjects(el.cleaned))

\* an array of objects that carry a string title and a string link
ShapeValid(v) ==
    /\ v.k = "array"
    /\ \A j \in 1..Len(v.items) :
          /\ v.items[j].k = "object"
          /\ v.items[j].body # "none"
          /\ Bodies[v.items[j].body].title \notin {"<absent>", "<null>", "<num>"}
          /\ Bodies[v.items[j].body].link.k \in {"rel", "abs", "empty"}

\* C9: when the cleaned reply parses but is not an array of objects
\* carrying string title and link, the repair call is made, as it is for
\* a reply that does not parse.
C9_ShapeFailureIsRepaired ==
    (el.pc = "done" /\ el.path # <<>> /\ el.path[1] = "parsed"
        /\ ~ShapeValid(el.news_list))
        => el.calls = <<"extract", "fix">>

\* the 1-based positions of a "}" followed by "," past the first
\* character, and the positions of a token
CutPoints(t)    == {i \in 2..(Len(t) - 1) : t[i] = "}" /\ t[i + 1] = ","}
Points(t, tok)  == {i \in 1..Len(t) : t[i] = tok}

SetMax(S) == CHOOSE i \in S : \A j \in S : i >= j
SetMin(S) == CHOOSE i \in S : \A j \in S : i <= j

\* C10 as stated: whenever the truncated text fails to parse, the first
\* complete object is extracted next.
C10_ChainAsStated ==
    (el.pc = "done" /\ "truncate" \in Range(el.path)
        /\ "recover_failed" \in Range(el.path))
        => "first_object" \in Range(el.path)

\* C10: after the repair call has failed exactly one rewrite is tried,
\* chosen by the text: with a "}," past the first character the reply is
\* cut after the last such "}" and closed; otherwise, when the first "}"
\* lies past the first character, the text from the first "{" to the
\* first "}" is wrapped alone; a rewrite that does not parse, or a reply
\* with neither, gives zero links.
C10_RecoveryChain ==
    (el.pc = "done" /\ "fix_failed" \in Range(el.path)) =>
        LET t == el.cleaned
            tried == Range(el.path) \cap {"truncate", "first_object"}
        IN  /\ el.calls = <<"extract", "fix">>
            /\ IF CutPoints(t) # {}
               THEN /\ tried = {"truncate"}
                    /\ el.result_text = SubSeq(t, 1, SetMax(CutPoints(t))) \o <<"]">>
               ELSE IF Points(t, "}") # {} /\ SetMin(Points(t, "}")) > 1
               THEN /\ tried = {"first_object"}
                    /\ Points(t, "{") # {} =>
                          el.result_text =
                              <<"[">> \o SubSeq(t, SetMin(Points(t, "{")),
                                                SetMin(Points(t, "}")))
                                     \o <<"]">>
               ELSE /\ tried = {}
                    /\ el.links = <<>>
                    /\ el.err = el.fix_err
            /\ tried # {} =>
                  IF json_loads(el.result_text).ok
                  THEN "recovered" \in Range(el.path)
                  ELSE /\ "recover_failed" \in Range(el.path)
                       /\ el.links = <<>>
                       /\ el.err = "JSONDecodeError"

\* a truncation that does not parse although the reply holds a complete
\* object
C10_Witness ==
    /\ el.pc = "done"
    /\ "truncate" \in Range(el.path) /\ "recover_failed" \in Range(el.path)
    /\ CompleteObjects(el.cleaned) # <<>>
    /\ el.links = <<>>

\* a reply cut after its second complete object, the repair call raising:
\* the first object's link alone is returned
C8_Witness ==
    /\ el.pc = "done" /\ el.fix_err = "LLMError"
    /\ el.cleaned = <<"[", "{", "a", "}", ",", "{", "b", "}">>
    /\ el.links = LinksOfBodies(el.site, <<"a">>)

\* a reply that is a single object: one model call, the AttributeError of
\* the item loop caught at line 523, no link
C9_Witness ==
    /\ el.pc = "done"
    /\ el.cleaned = <<"{", "a", "}">>
    /\ el.calls = <<"extract">>
    /\ el.err = "AttributeError"
    /\ el.links = <<>>

\* C11: a page whose reduced text has fewer than 100 characters gives no
\* links, and no model call, extraction or repair, is made for it.
C11_ShortInputNoModelCall ==
    (el.pc # "idle" /\ el.content.len < 100) =>
        /\ el.calls = <<>>
        /\ el.links = <<>>
        /\ el.pc \in {"block", "clean", "done"}

\* a page of 99 characters whose block was found has been answered
C11_Witness ==
    /\ el.pc = "done" /\ el.tier # 0
    /\ el.content.len = 99 /\ el.content.pad = 0
    /\ el.path = <<"too_short">>
    /\ el.calls = <<>> /\ el.links = <<>>

\* the pair that the item loop makes of a body
PairOfBody(site, b) ==
    <<StripTitle(Bodies[b].title), build_full_link(site, Bodies[b].link)>>

\* C12: whatever the model replies, every pair returned for the target
\* date 2026/01/05 is the pair of an item dated 01/05.
C12_OnlyTargetDate ==
    el.pc = "done" =>
        \A j \in 1..Len(el.links) :
            \E b \in BodyTokens :
                /\ Bodies[b].date = target_date_short
                /\ Bodies[b].link.k \in {"rel", "abs"}
                /\ el.links[j] = PairOfBody(el.site, b)

\* the model lists the article of 01/05 and the one of 01/06: both are
\* returned
C12_Witness ==
    /\ el.pc = "done"
    /\ el.cleaned = ArrayText(<<"a", "d">>)
    /\ el.links = <<PairOfBody(el.site, "a"), PairOfBody(el.site, "d")>>

\* an item that carries a non-empty title and a non-empty link
CarriesBoth(item) ==
    /\ item.k = "object" /\ item.body # "none"
    /\ StripTitle(Bodies[item.body].title) \notin {"", "<absent>", "<null>", "<num>"}
    /\ Bodies[item.body].link.k \in {"rel", "abs"}

\* the pairs of the items that carry both fields, in order
RECURSIVE PairsOfComplete(_, _)
PairsOfComplete(site, items) ==
    IF items = <<>> THEN <<>>
    ELSE (IF CarriesBoth(Head(items))
          THEN <<PairOfBody(site, Head(items).body)>> ELSE <<>>)
         \o PairsOfComplete(site, Tail(items))

\* C13: when the parsed reply is an array of objects, the items whose
\* title or link is absent, empty or null are omitted and every other
\* item is returned; the page ends without an error.
C13_OnlyIncompleteItemsDropped ==
    (el.pc = "done" /\ el.news_list.k = "array"
        /\ \A j \in 1..Len(el.news_list.items) : el.news_list.items[j].k = "object")
        => /\ el.links = PairsOfComplete(el.site, el.news_list.items)
           /\ el.err = ""

\* an array with a complete item and one whose title is null: nothing is
\* returned, and the AttributeError is caught at line 523
C13_Witness ==
    /\ el.pc = "done"
    /\ el.cleaned = ArrayText(<<"a", "nt">>)
    /\ el.calls = <<"extract">>
    /\ el.err = "AttributeError"
    /\ el.links = <<>>

(***************************************************************************)
(* Properties of the runs (Spec) and of filter_existing_links (SpecFilter).*)
(***************************************************************************)
ListEvents   == {"list_fetch", "llm_extract", "llm_fix"}
LookupEvents == {"lookup", "lookup_failed"}
DetailEvents == {"detail_fetch", "llm_detail"}

EventsOf(r) == {log[r][j].ev : j \in 1..Len(log[r])}

DetailFetches(r) == {j \in 1..Len(log[r]) : log[r][j].ev = "detail_fetch"}

\* C1 as stated: every article-detail fetch of a run, also of a run that
\* overlaps another writer, is for one of the run's deduplicated
\* candidates and for a URL that is not persisted when it is fetched.
C1_NoFetchOfPersisted ==
    \A r \in Runs : \A j \in DetailFetches(r) :
        /\ log[r][j].url \in UrlsOf(hist[r].candidates)
        /\ ~log[r][j].stored

\* C1: every article-detail fetch of a run is for one of the run's
\* deduplicated candidates, a URL that a lookup of the run covered and
\* that was not persisted at that lookup; if the table has not grown
\* since the run's first lookup, the URL is not persisted at the fetch.
C1_DedupBeforeFetch ==
    \A r \in Runs : \A j \in DetailFetches(r) :
        /\ log[r][j].url \in UrlsOf(hist[r].candidates)
        /\ \E q \in 1..Len(flt[r].queries) : log[r][j].url \in Range(flt[r].queries[q])
        /\ log[r][j].url \notin flt[r].seen_stored
        /\ log[r][j].rows = flt[r].first_rows => ~log[r][j].stored

\* a run fetches a URL that another run persisted after the lookup
C1_Witness ==
    \E r \in Runs : \E j \in DetailFetches(r) :
        /\ log[r][j].stored
        /\ log[r][j].rows > flt[r].first_rows

\* C2: the source_url values of the rows are pairwise distinct, whatever
\* runs and direct saves, one after another or overlapping, have done.
C2_Uniqueness ==
    \A i, j \in 1..Len(store) :
        store[i].source_url = store[j].source_url => i = j

\* a batch holding one URL twice and the batch of an overlapped run have
\* both been rejected, and rows are stored
C2_Witness ==
    /\ stats[0].error = "IntegrityError"
    /\ \E r \in Runs : stats[r].error = "IntegrityError"
    /\ store # <<>>

\* neither the lookup nor the insert of run r failed
NoStorageFailure(r) ==
    ~flt[r].failed /\ stats[r].error = "" /\ ~stats[r].raised

\* run r2 started after run r1 had finished, and has finished
RanAfter(r1, r2) == r1 # r2 /\ r1 \in hist[r2].after /\ Finished(r2)

SecondRunAddsNothing(r2) ==
    /\ stats[r2].inserted = 0
    /\ UrlsOf(hist[r2].candidates) \subseteq StoreUrls(store)

C4_StepOrdering ==
    \A r \in Runs :
        LET At(evs)  == {j \in 1..Len(log[r]) : log[r][j].ev \in evs}
            listing  == At(ListEvents)
            dedups   == At({"dedup"})
            lookups  == At(LookupEvents)
            details  == At(DetailEvents)
        IN  /\ \A i \in listing \cup dedups : \A j \in lookups \cup details : i < j
            /\ \A i \in lookups : \A j \in details : i < j
            /\ details # {} => (dedups # {} /\ At({"lookup"}) # {})

\* a run that made every kind of call, the repair call included
C4_Witness ==
    \E r \in Runs :
        ListEvents \cup {"dedup", "lookup"} \cup DetailEvents \subseteq EventsOf(r)

\* the position of a pair in a list without repetitions
IndexIn(links, pair) == CHOOSE i \in 1..Len(links) : links[i] = pair

\* C5: when no lookup fails, the call returns exactly the input pairs
\* whose URL is not a stored source_url, in input order; no lookup
\* carries more than 100 URLs and the lookups cover every candidate.
C5_FilterResult ==
    (pc[1] = "limit" /\ ~flt[1].failed) =>
        LET in   == flt[1].input
            res  == unique_links[1]
            keep == {i \in 1..Len(in) : LinkOf(in[i]) \notin StoreUrls(store)}
        IN  /\ Len(res) = Cardinality(keep)
            /\ \A j \in 1..Len(res) : \E i \in keep : in[i] = res[j]
            /\ \A j \in 1..(Len(res) - 1) :
                  IndexIn(in, res[j]) < IndexIn(in, res[j + 1])
            /\ \A q \in 1..Len(flt[1].queries) : Len(flt[1].queries[q]) <= 100
            /\ UNION {Range(flt[1].queries[q]) : q \in 1..Len(flt[1].queries)}
                  = UrlsOf(in)

\* more than 100 candidates, one of those past the 100th stored, some but
\* not all returned
C5_Witness ==
    /\ pc[1] = "limit" /\ ~flt[1].failed
    /\ Len(flt[1].input) > 100 /\ Len(flt[1].queries) >= 2
    /\ \E i \in 101..Len(flt[1].input) :
          LinkOf(flt[1].input[i]) \in StoreUrls(store)
    /\ unique_links[1] # <<>>
    /\ Len(unique_links[1]) < Len(flt[1].input)

\* C6: when filter_existing_links fails, after a successful lookup too,
\* it returns the empty list and raises nothing: the run is not left, and
\* it makes no detail fetch, no detail-extraction call and no insert.
C6_FailClosed ==
    \A r \in Runs :
        flt[r].failed =>
            /\ unique_links[r] = <<>>
            /\ articles_data[r] = <<>>
            /\ EventsOf(r) \cap (DetailEvents \cup {"insert"}) = {}
            /\ pc[r] \in {"limit", "detail", "done"}

\* a run whose lookup failed after a batch had been looked up, finished
C6_Witness ==
    \E r \in Runs :
        /\ flt[r].failed /\ flt[r].queries # <<>>
        /\ Len(flt[r].input) >= 2
        /\ pc[r] = "done"

\* the position of the first pair of links with URL u
FirstIndex(links, u) ==
    CHOOSE i \in 1..Len(links) :
        /\ LinkOf(links[i]) = u
        /\ \A k \in 1..(i - 1) : LinkOf(links[k]) # u

\* C14: the list handed to filter_existing_links has pairwise distinct
\* URLs, the URLs of all_links; each pair is the first pair of all_links
\* with its URL, and the pairs are in the order of those first pairs.
C14_IntraRunDedup ==
    \A r \in Runs :
        pc[r] \notin {"idle", "list"} =>
            LET found == all_links[r]
                given == flt[r].input
            IN  /\ given = hist[r].candidates
                /\ \A i, j \in 1..Len(given) :
                      LinkOf(given[i]) = LinkOf(given[j]) => i = j
                /\ UrlsOf(given) = UrlsOf(found)
                /\ \A j \in 1..Len(given) :
                      given[j] = found[FirstIndex(found, LinkOf(given[j]))]
                /\ \A j \in 1..(Len(given) - 1) :
                      FirstIndex(found, LinkOf(given[j]))
                          < FirstIndex(found, LinkOf(given[j + 1]))

\* one URL found twice with two titles, then another URL: the first title
\* is kept
C14_Witness ==
    /\ pc[1] \notin {"idle", "list"}
    /\ all_links[1] = <<<<"t3", Url("www.setn.com", 1)>>,
                        <<"t1", Url("www.setn.com", 1)>>,
                        <<"t2", Url("www.setn.com", 2)>>>>
    /\ flt[1].input = <<<<"t3", Url("www.setn.com", 1)>>,
                        <<"t2", Url("www.setn.com", 2)>>>>

\* the articles of run r that came out of the detail step for URL u
ArticlesFor(r, u) ==
    {k \in 1..Len(articles_data[r]) : articles_data[r][k].link = u}

\* the steps of run r in which the detail-extraction call raised
RaisedCalls(r) ==
    {j \in 1..Len(log[r]) : log[r][j].ev = "llm_detail" /\ log[r][j].out = "raise"}

\* C15: a detail-extraction call that raises gives the byline "unspecified"
\* and an empty synopsis, the exception does not leave scrape_news, and the
\* loop goes on to the articles after it: the run reaches the save only
\* with one article for every candidate
C15_DetailErrorDegrades ==
    /\ \A j \in RaisedCalls(1) :
         /\ ArticlesFor(1, log[1][j].url) # {}
         /\ \A k \in ArticlesFor(1, log[1][j].url) :
              /\ articles_data[1][k].reporter = Unspecified
              /\ articles_data[1][k].summary = ""
    /\ pc[1] = "site_failed" => stats[1].raised
    /\ pc[1] \in {"save", "done"} => Len(articles_data[1]) = Len(unique_links[1])

\* the call for the first candidate raised and the second was processed
C15_Witness ==
    /\ 1 \in {j - 1 : j \in RaisedCalls(1)}
    /\ Len(articles_data[1]) = 2
    /\ articles_data[1][2].reporter # Unspecified
    /\ pc[1] = "done"

\* the detail steps of run r whose fetch gave no content or whose
\* detail-extraction call raised
FailedDetails(r) ==
    {j \in 1..Len(log[r]) :
        \/ log[r][j].ev = "detail_fetch" /\ log[r][j].out = "empty"
        \/ log[r][j].ev = "llm_detail" /\ log[r][j].out = "raise"}

\* C16: a URL whose article fetch gave empty content or whose
\* detail-extraction call raised has no record in articles_data and no row
\* in the table, and the rows that were in the table stay in it unchanged
C16_RecordOnlyAfterSuccess ==
    /\ \A j \in FailedDetails(1) :
         /\ ArticlesFor(1, log[1][j].url) = {}
         /\ log[1][j].url \notin StoreUrls(store)
    /\ \A j \in 1..Len(log[1]) :
         /\ log[1][j].rows <= Len(store)
         /\ log[1][j].rows = 1 => store[1] = EarlierRow

\* the part of C16 the code keeps: no step of the run removes or changes
\* a row of the table
C16_NeverDeletes ==
    \A j \in 1..Len(log[1]) :
        /\ log[1][j].rows <= Len(store)
        /\ log[1][j].rows = 1 => store[1] = EarlierRow

\* the fetch of the only candidate gave no content and the URL was saved
C16_Witness ==
    /\ Len(unique_links[1]) = 1
    /\ log[1] # <<>>
    /\ log[1][1].out = "empty"
    /\ pc[1] = "done"
    /\ LinkOf(unique_links[1][1]) \in StoreUrls(store)

\* C24: a call of save_scraper_results_to_db whose bulk insert violates
\* the uniqueness of source_url returns its statistics and raises nothing,
\* leaves the table as it was, so that no row of the batch is persisted,
\* has inserted = 0 and counts every valid article as failed
C24_IntegrityRollback ==
    [][\A c \in Callers :
          stats'[c] # stats[c] /\ stats'[c].error = "IntegrityError" =>
              /\ ~stats'[c].raised
              /\ store' = store
              /\ stats'[c].inserted = 0
              /\ stats'[c].failed = stats'[c].total
              /\ stats'[c].updated = 0 /\ stats'[c].skipped = 0]_vars

\* the save of run 2 was rejected for a URL that an overlapping run had
\* inserted, and another article of its batch is not in the table
C24_Witness ==
    /\ stats[2].error = "IntegrityError"
    /\ pc[2] = "done"
    /\ Len(articles_data[2]) = 2
    /\ \E k \in 1..2 : articles_data[2][k].link \in StoreUrls(store)
    /\ \E k \in 1..2 : articles_data[2][k].link \notin StoreUrls(store)

(***************************************************************************)
(* Properties of generate_embeddings_for_articles (SpecEmbed).             *)
(***************************************************************************)

\* the database did all it was asked in the updates made so far
CleanDb == \A j \in 1..Len(emb.updates) : emb.updates[j].outcome = "ok"

\* the run is over and had one batch, whose title call succeeded and
\* whose synopsis call failed
TitlesOnlyBatch ==
    /\ emb.pc = "done"
    /\ Len(emb.batches) = 1
    /\ emb.batches[1].title_call = "ok"
    /\ emb.batches[1].summary_call = "fail"
    /\ CleanDb

\* the vectors of such a batch: every record whose title was sent has the
\* vector of its title, and no synopsis vector has changed
C17_VectorsOfTitlesOnlyBatch ==
    TitlesOnlyBatch =>
        /\ \A id \in Range(emb.batches[1].title_ids) :
             emb.table[id].title_embedding = Embed(emb.table0[id].title)
        /\ \A id \in 1..Len(emb.table) :
             emb.table[id].summary_embedding = emb.table0[id].summary_embedding

\* C17: in a batch whose title call succeeds and whose synopsis call fails,
\* every record that needed a title vector has it, every synopsis vector is
\* as it was, and the failed counter counts the synopses that got no vector
\* and nothing else
C17_PartialSuccess ==
    /\ C17_VectorsOfTitlesOnlyBatch
    /\ TitlesOnlyBatch => emb.stats.failed = Len(emb.batches[1].summary_ids)

\* two records were sent with title and synopsis, only the titles came back
C17_Witness ==
    /\ TitlesOnlyBatch
    /\ Len(emb.batches[1].summary_ids) = 2
    /\ Len(emb.batches[1].title_ids) = 2
    /\ emb.stats.success = 2

\* the service gave one vector per input, in input order, in every call
ServiceInOrder ==
    \A b \in 1..Len(emb.batches) :
        /\ emb.batches[b].title_call \in {"none", "ok"}
        /\ emb.batches[b].summary_call \in {"none", "ok"}

\* the title (synopsis) of record id was sent to the service
TitleSent(id) ==
    \E b \in 1..Len(emb.batches) : id \in Range(emb.batches[b].title_ids)

SummarySent(id) ==
    \E b \in 1..Len(emb.batches) : id \in Range(emb.batches[b].summary_ids)

\* C18: given a service that returns one vector per input in input order,
\* a vector column of a record holds what it held when the run started or
\* the vector of that record's own title (synopsis), whatever the other
\* records of the batch need; and a record whose text was sent and whose
\* commit succeeded holds the vector of its own text
C18_ScatterBack ==
    ServiceInOrder =>
        /\ \A id \in 1..Len(emb.table) :
             /\ emb.table[id].title_embedding \in
                   {emb.table0[id].title_embedding, Embed(emb.table0[id].title)}
             /\ emb.table[id].summary_embedding \in
                   {emb.table0[id].summary_embedding, Embed(emb.table0[id].summary)}
        /\ \A j \in 1..Len(emb.updates) :
             LET id == emb.updates[j].id
             IN  emb.updates[j].commit = "ok" =>
                   /\ TitleSent(id) =>
                        emb.table[id].title_embedding = Embed(emb.table0[id].title)
                   /\ SummarySent(id) =>
                        emb.table[id].summary_embedding = Embed(emb.table0[id].summary)

\* the first record of a batch needs only a synopsis vector, the second
\* only a title vector, and both have got theirs
C18_Witness ==
    /\ emb.pc = "done" /\ ~emb.force_update /\ ServiceInOrder
    /\ Len(emb.batches) = 1
    /\ emb.batches[1].title_ids = <<2>>
    /\ emb.batches[1].summary_ids = <<1>>
    /\ emb.table[2].title_embedding = Embed(emb.table0[2].title)
    /\ emb.table[1].summary_embedding = Embed(emb.table0[1].summary)

\* the updates whose commit failed
FailedCommits == {j \in 1..Len(emb.updates) : emb.updates[j].commit = "failed"}

\* what a failed commit does to the table and to the counters: an update
\* writes the row of its own record only, a failed commit leaves the table
\* as it was and adds one to failed, and the rows committed before it are
\* in the table as they were committed
C19_CommitFailureIsLocal ==
    /\ \A j \in 1..Len(emb.updates) :
         \A id \in 1..Len(emb.table) :
             id # emb.updates[j].id =>
                 emb.updates[j].table_after[id] = emb.updates[j].table_before[id]
    /\ \A j \in FailedCommits :
         /\ emb.updates[j].table_after = emb.updates[j].table_before
         /\ emb.updates[j].failed_after = emb.updates[j].failed_before + 1
         /\ \A h \in 1..(j - 1) :
              emb.updates[h].commit = "ok" =>
                 emb.table[emb.updates[h].id] =
                     emb.updates[h].table_after[emb.updates[h].id]

\* C19: every updated record is committed on its own; a failed commit
\* discards the new vectors of that record only, leaves the vectors
\* committed earlier in place and adds exactly one to failed; and after a
\* failed commit the run still goes through the remaining records and
\* batches: it is not left through an exception, and it ends with every
\* selected record processed
C19_PerRecordCommit ==
    /\ C19_CommitFailureIsLocal
    /\ FailedCommits # {} => emb.pc # "aborted"
    /\ emb.pc = "done" => Len(emb.updates) = Len(emb.articles)

\* the commit of the first record failed, the title read in the handler
\* failed too, and the second record was never processed
C19_Witness ==
    /\ emb.pc = "aborted"
    /\ Len(emb.articles) = 2
    /\ Len(emb.updates) = 1
    /\ emb.updates[1].outcome = "commit_fails_read_fails"

\* the commit of the first record failed, the run went on and committed
\* the second record
C19_RunWentOn ==
    /\ emb.pc = "done"
    /\ Len(emb.updates) = 2
    /\ emb.updates[1].commit = "failed"
    /\ emb.updates[2].commit = "ok"

\* C20: a run never creates or deletes a record and never changes the
\* title, reporter, synopsis, publish date, source_url or source site of a
\* record; without force_update a vector column that is not NULL when the
\* run starts keeps its value
C20_Frame ==
    /\ Len(emb.table) = Len(emb.table0)
    /\ \A id \in 1..Len(emb.table) :
         /\ Descriptive(emb.table[id]) = Descriptive(emb.table0[id])
         /\ ~emb.force_update =>
              /\ emb.table0[id].title_embedding # NoVector =>
                   emb.table[id].title_embedding = emb.table0[id].title_embedding
              /\ emb.table0[id].summary_embedding # NoVector =>
                   emb.table[id].summary_embedding = emb.table0[id].summary_embedding

\* a run without force_update has filled the synopsis vector of a record
\* that had a title vector, next to a record it has filled both vectors of
C20_Witness ==
    /\ emb.pc = "done" /\ ~emb.force_update
    /\ Len(emb.table) = 2
    /\ emb.table0[1].title_embedding = OldVector
    /\ emb.table0[1].summary_embedding = NoVector
    /\ emb.table[1].summary_embedding = Embed(emb.table0[1].summary)
    /\ emb.table0[2].title_embedding = NoVector
    /\ emb.table[2].title_embedding = Embed(emb.table0[2].title)

\* a vector column is set
HasVector(v) == v # NoVector

\* a run without force_update and without limit has ended, the service
\* gave one vector per input in every call, the database did all it was
\* asked, and every record the query selects at the start was processed
CleanFullRun ==
    /\ emb.pc = "done" /\ ~emb.force_update /\ emb.lim = 0
    /\ ServiceInOrder /\ CleanDb
    /\ Len(emb.updates) = Len(QueryArticles(emb.table0, FALSE, 0))

\* a record never moves back: a vector column that was set stays set
C21_NeverBack ==
    \A id \in 1..Len(emb.table) :
        /\ HasVector(emb.table0[id].title_embedding) =>
              HasVector(emb.table[id].title_embedding)
        /\ HasVector(emb.table0[id].summary_embedding) =>
              HasVector(emb.table[id].summary_embedding)

\* C21: after a run without force_update and without limit in which
\* neither the service nor the database failed, every record has both
\* vectors, so the query of a following run selects nothing; and no
\* record moves back from a set vector to NULL
C21_ReachesComplete ==
    /\ C21_NeverBack
    /\ CleanFullRun =>
         /\ \A id \in 1..Len(emb.table) :
              /\ HasVector(emb.table[id].title_embedding)
              /\ HasVector(emb.table[id].summary_embedding)
         /\ QueryArticles(emb.table, FALSE, 0) = <<>>

\* what the code gives: the records that have a title and a synopsis are
\* complete after such a run
C21_CompleteWhereTextPresent ==
    CleanFullRun =>
        \A id \in 1..Len(emb.table) :
            emb.table[id].title # "" /\ emb.table[id].summary # "" =>
                /\ HasVector(emb.table[id].title_embedding)
                /\ HasVector(emb.table[id].summary_embedding)

\* a record without synopsis has got its title vector in a clean run and
\* is selected again by the query of the next run
C21_Witness ==
    /\ CleanFullRun
    /\ Len(emb.table) = 1
    /\ emb.table[1].summary = ""
    /\ emb.table[1].title_embedding = Embed(emb.table[1].title)
    /\ emb.table[1].summary_embedding = NoVector
    /\ QueryArticles(emb.table, FALSE, 0) = <<1>>

(***************************************************************************)
(* Properties of main and run_all_scrapers (SpecSites).                    *)
(***************************************************************************)

\* the sites at which an exception was raised, by scrape_news or by the save
RaisedSites ==
    {j \in 1..Len(ras.trace) :
        ras.trace[j].scrape = "raised" \/ ras.trace[j].save = "raised"}

\* what the code keeps of C22: with a date that parses the process ends
\* only after run_all_scrapers has returned its statistics, and by then
\* every site has been run, whatever was raised at the sites before it
C22_SitesIsolated ==
    /\ ras.pc = "exit" /\ ParseDateArg(ras.date_arg).ok =>
         ras.returned /\ Len(ras.trace) = Len(scraper_classes)
    /\ \A j \in 1..Len(ras.trace) : ras.trace[j].site = scraper_classes[j]

\* C22: run_all_scrapers always returns its statistics, an exception of
\* one site is absorbed there and the later sites are run, and at the end
\* success_sites + failed_sites = total_sites
C22_AggregateReport ==
    /\ C22_SitesIsolated
    /\ ras.returned =>
         ras.total_stats.success_sites + ras.total_stats.failed_sites
             = ras.total_stats.total_sites

\* the save of the first site raised, the two other sites were run and
\* saved, and the statistics were returned
C22_Witness ==
    /\ ras.returned
    /\ Len(ras.trace) = 3
    /\ ras.trace[1].save = "raised"
    /\ ras.trace[2].save = "ok" /\ ras.trace[3].save = "ok"
    /\ ras.total_stats.success_sites = 3
    /\ ras.total_stats.failed_sites = 1

\* C23: the process ends with exit code 0 when the attempt was completed,
\* whatever failed at the sites, and with a non-zero exit code when the
\* --date argument does not parse
C23_ExitCode ==
    ras.pc = "exit" =>
        /\ ras.returned => ras.exit_code = 0
        /\ ~ParseDateArg(ras.date_arg).ok => ras.exit_code # 0

\* what the code keeps of C23: exit code 0 after a completed attempt, and
\* a date that does not parse is reported before any site is run
C23_CompletedIsZero ==
    ras.pc = "exit" =>
        /\ ras.returned => ras.exit_code = 0
        /\ ~ParseDateArg(ras.date_arg).ok =>
              ras.message /\ ras.trace = <<>> /\ ~ras.returned

\* the process has ended on a --date that does not parse
C23_Witness ==
    /\ ras.pc = "exit"
    /\ ras.date_arg = "05/01/2026"
    /\ ras.message
    /\ ras.exit_code = 0

(***************************************************************************)
(* Properties of concurrent site pipelines (SpecFiles).                    *)
(***************************************************************************)

\* the paths more than one pipeline has written
SharedPaths ==
    {w[1] : w \in {v \in fs.writers : \E u \in fs.writers : u[1] = v[1] /\ u[2] # v[2]}}

\* no stored row collides with a row of the other site: every save
\* inserted all its articles
RowsDisjoint ==
    \A r \in Runs :
        pc[r] = "done" /\ articles_data[r] # <<>> =>
            /\ stats[r].inserted = Len(articles_data[r])
            /\ \A k \in 1..Len(articles_data[r]) :
                 \E j \in 1..Len(store) :
                     /\ store[j].source_url = articles_data[r][k].link
                     /\ store[j].source_site = run_site[r]

\* what the code keeps of C25: without debug no file is written by both
\* pipelines, and with or without it their rows do not collide
C25_DisjointWithoutDebug ==
    /\ RowsDisjoint
    /\ ~fs.debug => SharedPaths = {}

\* C25: two pipelines of different sites that run at the same time for one
\* target date, with or without debug, write no file and no row in common
C25_NoSharedState ==
    /\ RowsDisjoint
    /\ SharedPaths = {}

\* both pipelines have ended in debug mode; the file of list page 1 was
\* written by both and holds what the second pipeline wrote, the file of
\* the last list page holds what the first wrote
C25_Witness ==
    /\ fs.debug
    /\ \A r \in Runs : pc[r] = "done"
    /\ Path(raw_data_dir, "page", 1) \in SharedPaths
    /\ [path |-> Path(raw_data_dir, "page", NumPages), by |-> run_site[1]] \in fs.files
    /\ [path |-> Path(raw_data_dir, "page", 1), by |-> run_site[2]] \in fs.files


(***************************************************************************)
(* Block extraction of the three site classes.                             *)
(***************************************************************************)
\* the first of the three tiers that a page matches, 0 when it matches none
FirstTier(tiers) == IF tiers = {} THEN 0 ELSE SetMin(tiers)

\* the frame has left extract_news_block
BlockDone == el.pc \notin {"idle", "block"}

\* C26: for each of the three sites extract_news_block returns the block of
\* the first tier the page matches, in the order site pattern, looser
\* structural pattern, window at the first link of the site's URL shape,
\* and None only for a page that matches none of the three.
C26_ThreeTiers ==
    BlockDone =>
        IF "no_block" \in Range(el.path)
        THEN el.content.tiers = {}
        ELSE el.tier = FirstTier(el.content.tiers)

\* SETN and TVBS go through the three tiers in order; ChinaTimes goes from
\* its site pattern straight to the window
C26_TiersPerSite ==
    BlockDone =>
        LET tried == IF el.site = "CT" THEN el.content.tiers \ {2}
                     ELSE el.content.tiers
        IN  IF "no_block" \in Range(el.path)
            THEN tried = {} /\ el.tier = 0 /\ el.links = <<>> /\ el.calls = <<>>
            ELSE el.tier = FirstTier(tried)

\* a ChinaTimes page without the article-list section that the looser
\* structural pattern and the link shape both match: the window was taken
C26_Witness ==
    /\ el.site = "CT" /\ el.content.tiers = {2, 3}
    /\ el.pc = "done" /\ el.tier = 3
    /\ "no_block" \notin Range(el.path)


(***************************************************************************)
(* The model calls of one extract_news_links.                              *)
(***************************************************************************)
\* how many entries of the path are the outcome of a repair
RepairOutcomes ==
    Cardinality({j \in 1..Len(el.path) : el.path[j] \in {"fixed", "fix_failed"}})

\* C27: one extract_news_links calls the model at most twice, the
\* extraction call and then at most one repair call; the repair call is
\* made only after the cleaned first reply failed to parse, its output is
\* taken or rejected once, and after a failed repair no call follows.
C27_BoundedModelCalls ==
    /\ el.calls \in {<<>>, <<"extract">>, <<"extract", "fix">>}
    /\ "fix" \in Range(el.calls) =>
           /\ ~json_loads(el.cleaned).ok
           /\ "parse_failed" \in Range(el.path)
           /\ "parsed" \notin Range(el.path)
    /\ RepairOutcomes <= 1
    /\ RepairOutcomes = 1 <=> "fix" \in Range(el.calls)

\* a function that has ended after a failed repair and the string repair
\* of the first reply: two model calls, the second one the repair
C27_Witness ==
    /\ el.pc = "done"
    /\ el.calls = <<"extract", "fix">>
    /\ "fix_failed" \in Range(el.path)
    /\ "recovered" \in Range(el.path)
    /\ el.links # <<>>


(***************************************************************************)
(* The cap on the articles of a run.                                       *)
(***************************************************************************)
\* the run is past unique_links[:max_articles]
PastLimit(r) ==
    pc[r] \in {"detail", "save", "done"}
        \/ (pc[r] = "site_failed" /\ DetailFetches(r) # {})

\* the candidates of run r that its lookups did not find stored, in the
\* order of the deduplicated list
NotStoredCandidates(r) ==
    IF flt[r].failed THEN <<>>
    ELSE SelectSeq(hist[r].candidates,
                   LAMBDA pair : LinkOf(pair) \notin flt[r].existing_urls)

\* C28: a run makes at most max_articles article-detail fetches and its
\* result holds at most max_articles articles, for max_articles from 0 on;
\* the links it processes are the first max_articles candidates its
\* lookups did not find stored, so that a stored link uses up none of the
\* cap.
C28_CapAfterFilter ==
    \A r \in Runs :
        /\ Cardinality(DetailFetches(r)) <= max_articles[r]
        /\ Len(articles_data[r]) <= max_articles[r]
        /\ PastLimit(r) =>
              LET fresh == NotStoredCandidates(r)
                  n == IF Len(fresh) < max_articles[r] THEN Len(fresh)
                       ELSE max_articles[r]
              IN  /\ unique_links[r] = SubSeq(fresh, 1, n)
                  /\ \A j \in 1..Len(articles_data[r]) :
                         articles_data[r][j].link = LinkOf(fresh[j])

\* a run with cap 1 whose first candidate was found stored and which had
\* two more: it has fetched and returned the second candidate alone
C28_Witness ==
    \E r \in Runs :
        /\ pc[r] = "done" /\ max_articles[r] = 1
        /\ Len(hist[r].candidates) = 3
        /\ LinkOf(hist[r].candidates[1]) \in flt[r].existing_urls
        /\ Len(NotStoredCandidates(r)) = 2
        /\ Cardinality(DetailFetches(r)) = 1
        /\ Len(articles_data[r]) = 1
        /\ articles_data[r][1].link = LinkOf(hist[r].candidates[2])

\* a run with cap 0 that found candidates: no detail fetch, no article
C28_WitnessZero ==
    \E r \in Runs :
        /\ pc[r] = "done" /\ max_articles[r] = 0
        /\ NotStoredCandidates(r) # <<>>
        /\ DetailFetches(r) = {} /\ articles_data[r] = <<>>


(***************************************************************************)
(* The statistics of save_scraper_results_to_db.                           *)
(***************************************************************************)
\* the articles of the last call that the loop collected
CollectedOf(articles) ==
    {j \in 1..Len(articles) : ArticleOutcome(articles[j]) = "valid"}

\* C29: for a non-empty list of articles the statistics that
\* save_scraper_results_to_db returns have inserted + failed = total,
\* updated = 0 and skipped = 0, with total the length of the list: an
\* article that lacks a field or whose date does not parse is one failure,
\* and the collected ones are all inserted or all failed.
C29_StatsConserved ==
    LET articles == articles_data[1]
        st == stats[0]
    IN  (log[1] # <<>> /\ articles # <<>> /\ ~st.raised) =>
            /\ st.total = Len(articles)
            /\ st.inserted + st.failed = st.total
            /\ st.updated = 0 /\ st.skipped = 0
            /\ st.inserted \in {0, Cardinality(CollectedOf(articles))}
            /\ st.failed >= Len(articles) - Cardinality(CollectedOf(articles))

\* a call with one article of a date of neither format and one complete
\* article whose insert was rolled back: two failures, nothing inserted
C29_Witness ==
    /\ log[1] # <<>>
    /\ Len(articles_data[1]) = 2
    /\ ArticleOutcome(articles_data[1][1]) = "bad_date"
    /\ ArticleOutcome(articles_data[1][2]) = "valid"
    /\ stats[0].error = "IntegrityError"
    /\ stats[0].total = 2 /\ stats[0].failed = 2 /\ stats[0].inserted = 0


(***************************************************************************)
(* The counters of generate_embeddings_for_articles.                       *)
(***************************************************************************)
\* the updates of the run whose commit put a new title vector, a new
\* synopsis vector, into the table
PersistedTitles ==
    {j \in 1..Len(emb.updates) :
        LET u == emb.updates[j]
        IN  u.table_after[u.id].title_embedding
                # u.table_before[u.id].title_embedding}

PersistedSummaries ==
    {j \in 1..Len(emb.updates) :
        LET u == emb.updates[j]
        IN  u.table_after[u.id].summary_embedding
                # u.table_before[u.id].summary_embedding}

\* C30: when a run ends, title_generated is the number of title vectors it
\* persisted and summary_generated the number of synopsis vectors it
\* persisted, also when commits of single records failed and were rolled
\* back, and success + failed is at most total.
C30_CountersMatchPersisted ==
    emb.pc = "done" =>
        /\ emb.stats.title_generated = Cardinality(PersistedTitles)
        /\ emb.stats.summary_generated = Cardinality(PersistedSummaries)
        /\ emb.stats.success + emb.stats.failed <= emb.stats.total

\* the counters in a run in which every commit and every read of a record
\* went through; in every run the counters are at least the numbers of
\* persisted vectors, and success is the number of commits
C30_CountersWithoutFailures ==
    emb.pc = "done" =>
        /\ emb.stats.title_generated >= Cardinality(PersistedTitles)
        /\ emb.stats.summary_generated >= Cardinality(PersistedSummaries)
        /\ emb.stats.success =
               Cardinality({j \in 1..Len(emb.updates) : emb.updates[j].commit = "ok"})
        /\ (\A j \in 1..Len(emb.updates) : emb.updates[j].outcome = "ok") =>
               /\ emb.stats.title_generated = Cardinality(PersistedTitles)
               /\ emb.stats.summary_generated = Cardinality(PersistedSummaries)
               /\ emb.stats.failed = 0
               /\ emb.stats.success <= emb.stats.total

\* a run over one record whose title and synopsis were embedded and whose
\* commit failed: both counters are 1 and the table is as it was
C30_Witness ==
    /\ emb.pc = "done"
    /\ Len(emb.articles) = 1 /\ Len(emb.updates) = 1
    /\ emb.updates[1].outcome = "commit_fails"
    /\ emb.stats.title_generated = 1 /\ emb.stats.summary_generated = 1
    /\ emb.stats.failed = 1 /\ emb.stats.success = 0
    /\ emb.table = emb.table0
    /\ PersistedTitles = {} /\ PersistedSummaries = {}

\* a run over one record whose commit went through and whose title could
\* not be read back at line 176: the record counts as success and as failed
C30_CountedTwice ==
    /\ emb.pc = "done"
    /\ emb.stats.total = 1
    /\ emb.stats.success = 1 /\ emb.stats.failed = 1

====
